---- MODULE Spec2Model ----
(***************************************************************************)
(* Price-time priority limit order book: PriceLevel, PriceBook,            *)
(* ExpirationWheel and the OrderBook facade, modelled from the Python      *)
(* sources.  Order objects live in a store keyed by their id (the store    *)
(* plays the part of the Python heap: levels, id indexes and trades hold   *)
(* references, so a volume written through one reference is seen through   *)
(* all of them).                                                           *)
(*                                                                         *)
(* PriceBook.fill calls self.best_price(); the class defines the method    *)
(* under the name get_best_price (its docstring still lists best_price()). *)
(* The call is modelled as a call of get_best_price.                       *)
(***************************************************************************)
EXTENDS Integers, Sequences, FiniteSets, TLC

\* ---------------------------------------------------------------- bounds
MaxPrice == 2
MaxVol == 2
MaxOrders == 3
MaxLifetime == 3
MaxBatch == 2

\* OrderBook(min_lifetime, max_lifetime): the engine of the model is built
\* with min_lifetime = MinLifetime and max_lifetime = MaxLifetime
MinLifetime == 2

\* ------------------------------------------------------- program constants
\* float('inf'): larger than every finite price of the model
PosInf == 1000000
NegInf == -PosInf

\* Python None / an optional value
None == <<>>
Some(x) == <<x>>

\* Python truthiness of `best_price` in `while best_price and ...`:
\* None and 0 are falsy
Truthy(opt) == opt # None /\ opt[1] # 0

\* input domains
Prices == 1..MaxPrice
Volumes == 1..MaxVol
Lifetimes == {None}
Traders == {None, Some(1)}

VARIABLES
    bids,           \* OrderBook.bids  : PriceBook(is_bid_side=True)
    asks,           \* OrderBook.asks  : PriceBook(is_bid_side=False)
    wheel,          \* OrderBook.expiration_wheel
    trade_history,  \* OrderBook.trade_history
    order_store,    \* the Order objects the engine references, by id
    id_counter,     \* Order._id_counter
    last            \* history variable: the last call; for process_orders
                    \* the batch, the Order objects before and after it,
                    \* its trades and what the queries answered before it;
                    \* for a cancelling call how many ids it cancelled and
                    \* how many it passed over; for a best-price query the
                    \* prices that had a level before it; for a construction
                    \* the order built; for clear the ids that were resting;
                    \* the return value; the exception raised

vars == <<bids, asks, wheel, trade_history, order_store, id_counter, last>>

\* ------------------------------------------------------------ small helpers
RECURSIVE SumSeq(_)
SumSeq(s) == IF s = <<>> THEN 0 ELSE Head(s) + SumSeq(Tail(s))

RECURSIVE SumSet(_, _)
SumSet(S, f) ==
    IF S = {} THEN 0
    ELSE LET x == CHOOSE y \in S : TRUE IN f[x] + SumSet(S \ {x}, f)

SeqToSet(s) == {s[i] : i \in 1..Len(s)}

\* list.remove / deque.remove: drops the first occurrence
RemoveFirst(s, x) ==
    LET i == CHOOSE j \in 1..Len(s) : s[j] = x /\ \A k \in 1..(j-1) : s[k] # x
    IN SubSeq(s, 1, i-1) \o SubSeq(s, i+1, Len(s))

Restrict(f, S) == [x \in S |-> f[x]]

\* heapq on a list of numbers: the list is kept in ascending order, which
\* satisfies the heap property; heap[0] is the minimum either way
RECURSIVE heappush(_, _)
heappush(h, x) ==
    IF h = <<>> THEN <<x>>
    ELSE IF x <= Head(h) THEN <<x>> \o h
    ELSE <<Head(h)>> \o heappush(Tail(h), x)

heappop(h) == Tail(h)

\* ------------------------------------------------------------------- Order
\* Order(price, volume, is_bid, is_market, trader_id, lifetime) with the id
\* taken from the class counter; volume0 (the volume the order was built
\* with) and age (the number of advance() calls since it was built) are
\* history fields, never read by the modelled code
Order(id, price, volume, is_bid, is_market, trader_id, lifetime) ==
    [id |-> id, price |-> price, volume |-> volume, is_bid |-> is_bid,
     is_market |-> is_market, trader_id |-> trader_id, lifetime |-> lifetime,
     volume0 |-> volume, age |-> 0]

MarketOrder(id, volume, is_bid, trader_id) ==
    Order(id, IF is_bid THEN PosInf ELSE NegInf, volume, is_bid, TRUE,
          trader_id, None)

\* ------------------------------------------------------------- PriceLevel
PriceLevel(price) == [price |-> price, orders |-> <<>>, volume |-> 0]

PriceLevel_is_empty(level) == Len(level.orders) = 0

\* faulty variant: appendleft instead of append
PriceLevel_add_front(level, id, o) ==
    [level EXCEPT !.orders = <<id>> \o @, !.volume = @ + o[id].volume]

PriceLevel_add(level, id, o) ==
    [level EXCEPT !.orders = Append(@, id), !.volume = @ + o[id].volume]

PriceLevel_top(level) == IF level.orders = <<>> THEN None ELSE Some(level.orders[1])

\* _pop: popleft, then volume -= order.volume (the volume the order has at
\* the moment of the pop)
PriceLevel_pop(level, o) ==
    IF level.orders = <<>>
    THEN [level |-> level, order |-> None, raised |-> "IndexError"]
    ELSE [level |-> [level EXCEPT !.orders = Tail(@),
                                  !.volume = @ - o[Head(level.orders)].volume],
          order |-> Some(Head(level.orders)), raised |-> ""]

\* Trade(bid, ask, price, volume); g is a history field (not read by any
\* modelled code): the level's FIFO and the two volumes just before the trade
Trade(bid, ask, price, volume, g) ==
    [bid_order |-> bid, ask_order |-> ask, price |-> price, volume |-> volume,
     g |-> g]

\* the three branches of PriceLevel.fill: the volume traded against the
\* head (tv: head's volume, iv: incoming volume) and whether the head is
\* popped
\* faulty variant: one unit is traded per iteration
fill_trade_volume_unit(tv, iv) == 1

fill_trade_volume(tv, iv) ==
    IF tv > iv THEN iv
    ELSE IF tv = iv THEN iv
    ELSE tv

\* faulty variant: the head is popped on a partial fill too
fill_pops_head_always(tv, iv) == TRUE

\* faulty variant: a head that the incoming order fills exactly is kept
fill_pops_head_smaller(tv, iv) == tv < iv

fill_pops_head(tv, iv) == ~(tv > iv)

\* faulty variant: the resting order's volume is not written back
fill_update_volumes_incoming(o, top, inc, trade_volume) ==
    [o EXCEPT ![inc].volume = @ - trade_volume]

\* faulty variant: the traded volume is added to the resting order
fill_update_volumes_grows(o, top, inc, trade_volume) ==
    [[o EXCEPT ![top].volume = @ + trade_volume]
        EXCEPT ![inc].volume = @ - trade_volume]

\* "Update order volumes": top_order.volume -= ..., order.volume -= ...
fill_update_volumes(o, top, inc, trade_volume) ==
    [[o EXCEPT ![top].volume = @ - trade_volume]
        EXCEPT ![inc].volume = @ - trade_volume]

RECURSIVE PriceLevel_fill_loop(_, _, _, _, _)
PriceLevel_fill_loop(level, o, inc, trades, filled) ==
    IF ~(~PriceLevel_is_empty(level) /\ o[inc].volume > 0)
    THEN [level |-> level, o |-> o, trades |-> trades,
          level_orders_filled |-> filled]
    ELSE
      LET top == PriceLevel_top(level)[1]
          tv == o[top].volume
          iv == o[inc].volume
          pops == fill_pops_head(tv, iv)
          trade_volume == fill_trade_volume(tv, iv)
          level1 == IF pops THEN PriceLevel_pop(level, o).level ELSE level
          o1 == fill_update_volumes(o, top, inc, trade_volume)
          level2 == [level1 EXCEPT !.volume = @ - trade_volume]
          is_bid == o[inc].is_bid
          trade == Trade(IF is_bid THEN inc ELSE top,
                         IF is_bid THEN top ELSE inc,
                         level.price, trade_volume,
                         [resting |-> top, incoming |-> inc,
                          queue |-> level.orders,
                          resting_volume |-> tv, incoming_volume |-> iv,
                          incoming_price |-> o[inc].price,
                          incoming_is_bid |-> is_bid,
                          resting_price |-> o[top].price,
                          occupied |-> {}])
      IN PriceLevel_fill_loop(level2, o1, inc, Append(trades, trade),
                              IF pops THEN Append(filled, top) ELSE filled)

PriceLevel_fill(level, inc, o) == PriceLevel_fill_loop(level, o, inc, <<>>, <<>>)

\* faulty variant: the running volume is not reduced
PriceLevel_cancel_keeps_volume(level, id, o) ==
    IF id \notin SeqToSet(level.orders)
    THEN [level |-> level, raised |-> "ValueError"]
    ELSE [level |-> [level EXCEPT !.orders = RemoveFirst(@, id)],
          raised |-> ""]

\* faulty variant: the running volume is reduced before the order is looked
\* for
PriceLevel_cancel_volume_first(level, id, o) ==
    IF id \notin SeqToSet(level.orders)
    THEN [level |-> [level EXCEPT !.volume = @ - o[id].volume],
          raised |-> "ValueError"]
    ELSE [level |-> [level EXCEPT !.orders = RemoveFirst(@, id),
                                  !.volume = @ - o[id].volume],
          raised |-> ""]

PriceLevel_cancel(level, id, o) ==
    IF id \notin SeqToSet(level.orders)
    THEN [level |-> level, raised |-> "ValueError"]
    ELSE [level |-> [level EXCEPT !.orders = RemoveFirst(@, id),
                                  !.volume = @ - o[id].volume],
          raised |-> ""]

\* --------------------------------------------------------------- PriceBook
PriceBook(is_bid_side) ==
    [order_map |-> {}, price_levels |-> <<>>, heap |-> <<>>,
     is_bid_side |-> is_bid_side]

\* faulty variant: no negation on the bid side
heap_price_unsigned(book, price) == price

\* heap key of a price / price of a heap key: negated on the bid side
heap_price(book, price) == IF book.is_bid_side THEN -price ELSE price

\* faulty variant: the order is queued but not entered in the id index
PriceBook_add_unindexed(book, id, o) ==
    LET price == o[id].price
        fresh == price \notin DOMAIN book.price_levels
        levels1 == IF fresh
                   THEN book.price_levels @@ (price :> PriceLevel(price))
                   ELSE book.price_levels
        heap1 == IF fresh THEN heappush(book.heap, heap_price(book, price))
                 ELSE book.heap
    IN [book EXCEPT !.price_levels =
                        [levels1 EXCEPT ![price] = PriceLevel_add(@, id, o)],
                    !.heap = heap1]

PriceBook_add(book, id, o) ==
    LET price == o[id].price
        fresh == price \notin DOMAIN book.price_levels
        levels1 == IF fresh
                   THEN book.price_levels @@ (price :> PriceLevel(price))
                   ELSE book.price_levels
        heap1 == IF fresh THEN heappush(book.heap, heap_price(book, price))
                 ELSE book.heap
    IN [book EXCEPT !.price_levels =
                        [levels1 EXCEPT ![price] = PriceLevel_add(@, id, o)],
                    !.heap = heap1,
                    !.order_map = @ \cup {id}]

\* faulty variant: the id stays in order_map
PriceBook_cancel_keeps_index(book, id, o) ==
    LET price == o[id].price IN
    IF price \notin DOMAIN book.price_levels
    THEN [book |-> book, raised |-> "ValueError"]
    ELSE LET r == PriceLevel_cancel(book.price_levels[price], id, o) IN
         IF r.raised # ""
         THEN [book |-> [book EXCEPT !.price_levels[price] = r.level],
               raised |-> "ValueError"]
         ELSE [book |-> [book EXCEPT !.price_levels[price] = r.level],
               raised |-> ""]

PriceBook_cancel(book, id, o) ==
    LET price == o[id].price IN
    IF price \notin DOMAIN book.price_levels
    THEN [book |-> book, raised |-> "ValueError"]
    ELSE LET r == PriceLevel_cancel(book.price_levels[price], id, o) IN
         IF r.raised # ""
         THEN [book |-> [book EXCEPT !.price_levels[price] = r.level],
               raised |-> "ValueError"]
         ELSE IF id \notin book.order_map
         THEN [book |-> [book EXCEPT !.price_levels[price] = r.level],
               raised |-> "KeyError"]
         ELSE [book |-> [book EXCEPT !.price_levels[price] = r.level,
                                     !.order_map = @ \ {id}],
               raised |-> ""]

\* faulty variant: empty levels are not popped
PriceBook_reap_none(book) == book

\* the while loop of get_best_price: pops empty levels off the heap top
RECURSIVE PriceBook_reap(_)
PriceBook_reap(book) ==
    IF book.heap = <<>> THEN book
    ELSE LET best_price == heap_price(book, Head(book.heap)) IN
         IF PriceLevel_is_empty(book.price_levels[best_price])
         THEN PriceBook_reap(
                [book EXCEPT !.heap = heappop(@),
                             !.price_levels =
                                 Restrict(@, DOMAIN @ \ {best_price})])
         ELSE book

\* `if self._heap: return best_price else: return None` after the loop
best_price_result(b) ==
    [book |-> b,
     result |-> IF b.heap # <<>> THEN Some(heap_price(b, Head(b.heap)))
                ELSE None]

PriceBook_get_best_price(book) ==
    IF DOMAIN book.price_levels = {}
    THEN [book |-> book, result |-> None]
    ELSE best_price_result(PriceBook_reap(book))

\* history: the prices of the levels that hold at least one order
Occupied(book) ==
    {p \in DOMAIN book.price_levels : book.price_levels[p].orders # <<>>}

Stamp(trades, occ) ==
    [i \in 1..Len(trades) |-> [trades[i] EXCEPT !.g.occupied = occ]]

\* faulty variant: the price check always passes
can_fill_always(book, best_price, price) == TRUE

\* "Check whether prices are compatible"
can_fill(book, best_price, price) ==
    IF book.is_bid_side THEN best_price >= price ELSE best_price <= price

RECURSIVE PriceBook_fill_loop(_, _, _, _, _)

\* `best_price = self.best_price()` at the end of the loop body, then the
\* next iteration
fill_next(q, o, inc, trades) ==
    PriceBook_fill_loop(q.book, o, inc, trades, q.result)

\* the `if can_fill:` branch, r being the result of the level's fill: the
\* trades are kept, the filled orders leave order_map (a missing id raises
\* KeyError)
fill_at_level(book, inc, trades, best_price, r) ==
    IF ~(SeqToSet(r.level_orders_filled) \subseteq book.order_map)
    THEN [book |-> [book EXCEPT !.price_levels[best_price] = r.level,
                                !.order_map = @ \ SeqToSet(r.level_orders_filled)],
          o |-> r.o,
          trades |-> trades \o Stamp(r.trades, Occupied(book)),
          raised |-> "KeyError"]
    ELSE fill_next(
           PriceBook_get_best_price(
             [book EXCEPT !.price_levels[best_price] = r.level,
                          !.order_map = @ \ SeqToSet(r.level_orders_filled)]),
           r.o, inc, trades \o Stamp(r.trades, Occupied(book)))

PriceBook_fill_loop(book, o, inc, trades, best) ==
    IF ~(Truthy(best) /\ o[inc].volume > 0)
    THEN [book |-> book, o |-> o, trades |-> trades, raised |-> ""]
    ELSE IF ~can_fill(book, best[1], o[inc].price)
    THEN [book |-> book, o |-> o, trades |-> trades, raised |-> ""]
    ELSE fill_at_level(book, inc, trades, best[1],
                       PriceLevel_fill(book.price_levels[best[1]], inc, o))

\* the loop entered with the first `best_price = self.best_price()`
fill_first(q, o, inc) == PriceBook_fill_loop(q.book, o, inc, <<>>, q.result)

\* faulty variant: the side is checked after the best price was looked up
PriceBook_fill_checks_late(book, inc, o) ==
    IF o[inc].is_bid = book.is_bid_side
    THEN [book |-> PriceBook_get_best_price(book).book, o |-> o,
          trades |-> <<>>, raised |-> "ValueError"]
    ELSE fill_first(PriceBook_get_best_price(book), o, inc)

PriceBook_fill(book, inc, o) ==
    IF o[inc].is_bid = book.is_bid_side
    THEN [book |-> book, o |-> o, trades |-> <<>>, raised |-> "ValueError"]
    ELSE fill_first(PriceBook_get_best_price(book), o, inc)

PriceBook_get_depth(book) ==
    SumSet(DOMAIN book.price_levels,
           [p \in DOMAIN book.price_levels |-> book.price_levels[p].volume])

\* --------------------------------------------------------- ExpirationWheel
ExpirationWheel(min_lifetime, max_lifetime) ==
    [max_lifetime |-> max_lifetime, min_lifetime |-> min_lifetime,
     expiration_bucket |-> [b \in 0..(max_lifetime - 1) |-> <<>>],
     now |-> 0]

\* faulty variant: the slot is one tick late
ExpirationWheel_schedule_late(w, id, o) ==
    LET lifetime == IF o[id].lifetime # None THEN o[id].lifetime[1]
                    ELSE w.min_lifetime
        expiration == (w.now + lifetime + 1) % w.max_lifetime
    IN [w EXCEPT !.expiration_bucket[expiration] = Append(@, id)]

\* faulty variant: the lifetime is capped below max_lifetime
ExpirationWheel_schedule_capped(w, id, o) ==
    LET lifetime == IF o[id].lifetime # None THEN o[id].lifetime[1]
                    ELSE w.min_lifetime
        capped == IF lifetime < w.max_lifetime THEN lifetime
                  ELSE w.max_lifetime - 1
        expiration == (w.now + capped) % w.max_lifetime
    IN [w EXCEPT !.expiration_bucket[expiration] = Append(@, id)]

ExpirationWheel_schedule(w, id, o) ==
    LET lifetime == IF o[id].lifetime # None THEN o[id].lifetime[1]
                    ELSE w.min_lifetime
        expiration == (w.now + lifetime) % w.max_lifetime
    IN [w EXCEPT !.expiration_bucket[expiration] = Append(@, id)]

\* faulty variant: the bucket under the old cursor is taken
ExpirationWheel_advance_stale(w) ==
    LET now1 == (w.now + 1) % w.max_lifetime IN
    [wheel |-> [w EXCEPT !.now = now1, !.expiration_bucket[w.now] = <<>>],
     expired |-> w.expiration_bucket[w.now]]

\* faulty variant: the bucket is returned but not emptied
ExpirationWheel_advance_keeps(w) ==
    LET now1 == (w.now + 1) % w.max_lifetime IN
    [wheel |-> [w EXCEPT !.now = now1],
     expired |-> w.expiration_bucket[now1]]

ExpirationWheel_advance(w) ==
    LET now1 == (w.now + 1) % w.max_lifetime IN
    [wheel |-> [w EXCEPT !.now = now1, !.expiration_bucket[now1] = <<>>],
     expired |-> w.expiration_bucket[now1]]

\* --------------------------------------------------------------- OrderBook
\* faulty variant: the volume the order was submitted with is reported
TradesNotification_submitted(order) ==
    [trader_id |-> order.trader_id, order_id |-> order.id,
     is_bid |-> order.is_bid, price_volume |-> <<>>, num_trades |-> 0,
     total_filled_volume |-> 0, total_notional |-> 0,
     remaining_volume |-> order.volume0, is_filled |-> (order.volume0 = 0)]

\* TradesNotification(order): reads the order's volume when it is created
TradesNotification(order) ==
    [trader_id |-> order.trader_id, order_id |-> order.id,
     is_bid |-> order.is_bid, price_volume |-> <<>>, num_trades |-> 0,
     total_filled_volume |-> 0, total_notional |-> 0,
     remaining_volume |-> order.volume, is_filled |-> (order.volume = 0)]

\* faulty variant: price_volume[price] is overwritten, not added to
TradesNotification_add_trade_overwrites(n, trade) ==
    [n EXCEPT !.price_volume =
                  IF trade.price \in DOMAIN @
                  THEN [@ EXCEPT ![trade.price] = trade.volume]
                  ELSE @ @@ (trade.price :> trade.volume),
              !.num_trades = @ + 1,
              !.total_filled_volume = @ + trade.volume,
              !.total_notional = @ + trade.price * trade.volume]

TradesNotification_add_trade(n, trade) ==
    [n EXCEPT !.price_volume =
                  IF trade.price \in DOMAIN @
                  THEN [@ EXCEPT ![trade.price] = @ + trade.volume]
                  ELSE @ @@ (trade.price :> trade.volume),
              !.num_trades = @ + 1,
              !.total_filled_volume = @ + trade.volume,
              !.total_notional = @ + trade.price * trade.volume]

\* the body of `if trader_id is not None:`, fresh telling whether the order
\* has no notification yet; acc.order_notifs : order id -> notification,
\* acc.trader_notifs : trader id -> list of order ids (references to the
\* notifications)
notify(acc, id, trade, o, fresh) ==
    [acc EXCEPT
       !.order_notifs =
           IF fresh
           THEN [x \in DOMAIN @ \cup {id} |->
                   IF x = id
                   THEN TradesNotification_add_trade(TradesNotification(o[id]),
                                                     trade)
                   ELSE @[x]]
           ELSE [@ EXCEPT ![id] = TradesNotification_add_trade(@, trade)],
       !.trader_notifs =
           IF ~fresh THEN @
           ELSE IF o[id].trader_id \in DOMAIN @
           THEN [@ EXCEPT ![o[id].trader_id] = Append(@, id)]
           ELSE @ @@ (o[id].trader_id :> <<id>>)]

\* faulty variant: no test for trader_id None
notify_side_anonymous(acc, id, trade, o) ==
    notify(acc, id, trade, o, id \notin DOMAIN acc.order_notifs)

\* faulty variant: a notification is created at every trade
notify_side_per_trade(acc, id, trade, o) ==
    IF o[id].trader_id = None THEN acc
    ELSE notify(acc, id, trade, o, TRUE)

\* faulty variant: a trader who already has a notification in the batch
\* gets no second one
notify_side_once_per_trader(acc, id, trade, o) ==
    IF o[id].trader_id = None THEN acc
    ELSE IF id \notin DOMAIN acc.order_notifs
            /\ o[id].trader_id \in DOMAIN acc.trader_notifs
    THEN acc
    ELSE notify(acc, id, trade, o, id \notin DOMAIN acc.order_notifs)

\* one pass of the inner `for order, trader_id in [...]` of _process_trades
notify_side(acc, id, trade, o) ==
    IF o[id].trader_id = None THEN acc
    ELSE notify(acc, id, trade, o, id \notin DOMAIN acc.order_notifs)

RECURSIVE process_trades_loop(_, _, _)
process_trades_loop(acc, trades, o) ==
    IF trades = <<>> THEN acc
    ELSE process_trades_loop(
           notify_side(
             notify_side(
               [acc EXCEPT !.volume_traded = @ + Head(trades).volume,
                           !.total_exchanged =
                               @ + Head(trades).price * Head(trades).volume],
               Head(trades).bid_order, Head(trades), o),
             Head(trades).ask_order, Head(trades), o),
           Tail(trades), o)

\* faulty variant: the two sums of the history entry change places
process_trades_result_swapped(acc) ==
    [entry |-> <<acc.total_exchanged, acc.volume_traded>>,
     trader_notifs |->
         [t \in DOMAIN acc.trader_notifs |->
             [i \in 1..Len(acc.trader_notifs[t]) |->
                 acc.order_notifs[acc.trader_notifs[t][i]]]]]

\* the dict returned by _process_trades (the lists hold the notification
\* objects) and the entry appended to trade_history
process_trades_result(acc) ==
    [entry |-> <<acc.volume_traded, acc.total_exchanged>>,
     trader_notifs |->
         [t \in DOMAIN acc.trader_notifs |->
             [i \in 1..Len(acc.trader_notifs[t]) |->
                 acc.order_notifs[acc.trader_notifs[t][i]]]]]

OrderBook_process_trades(trades, o) ==
    process_trades_result(
        process_trades_loop(
            [volume_traded |-> 0, total_exchanged |-> 0,
             order_notifs |-> <<>>, trader_notifs |-> <<>>],
            trades, o))

\* faulty variant: the residual of a market order rests too
rests_any(order) == order.volume # 0

\* "Only add remaining volume to book if it is a limit order"
rests(order) == order.volume # 0 /\ ~order.is_market

\* faulty variant: the order is scheduled before the test for what is left
rest_order_schedules_all(st, id) ==
    IF ~rests(st.o[id])
    THEN [st EXCEPT !.wheel = ExpirationWheel_schedule(@, id, st.o)]
    ELSE IF st.o[id].is_bid
    THEN [st EXCEPT !.wheel = ExpirationWheel_schedule(@, id, st.o),
                    !.bids = PriceBook_add(@, id, st.o)]
    ELSE [st EXCEPT !.wheel = ExpirationWheel_schedule(@, id, st.o),
                    !.asks = PriceBook_add(@, id, st.o)]

\* the second half of the body of `for order in orders`: schedule and add
\* what is left of a limit order
rest_order(st, id) ==
    IF ~rests(st.o[id]) THEN st
    ELSE IF st.o[id].is_bid
    THEN [st EXCEPT !.wheel = ExpirationWheel_schedule(@, id, st.o),
                    !.bids = PriceBook_add(@, id, st.o)]
    ELSE [st EXCEPT !.wheel = ExpirationWheel_schedule(@, id, st.o),
                    !.asks = PriceBook_add(@, id, st.o)]

\* the first half, f being the result of the opposite side's fill
after_fill(st, id, f) ==
    IF f.raised # ""
    THEN IF st.o[id].is_bid
         THEN [st EXCEPT !.asks = f.book, !.o = f.o,
                         !.trades = @ \o f.trades, !.raised = f.raised]
         ELSE [st EXCEPT !.bids = f.book, !.o = f.o,
                         !.trades = @ \o f.trades, !.raised = f.raised]
    ELSE rest_order(
           IF st.o[id].is_bid
           THEN [st EXCEPT !.asks = f.book, !.o = f.o, !.trades = @ \o f.trades]
           ELSE [st EXCEPT !.bids = f.book, !.o = f.o, !.trades = @ \o f.trades],
           id)

\* the body of `for order in orders` of process_orders
process_one_order(st, id) ==
    after_fill(st, id,
               PriceBook_fill(IF st.o[id].is_bid THEN st.asks ELSE st.bids,
                              id, st.o))

\* faulty variant: the batch is walked from its end
RECURSIVE process_orders_loop_reversed(_, _)
process_orders_loop_reversed(st, ids) ==
    IF ids = <<>> \/ st.raised # "" THEN st
    ELSE process_orders_loop_reversed(process_one_order(st, ids[Len(ids)]),
                                      SubSeq(ids, 1, Len(ids) - 1))

RECURSIVE process_orders_loop(_, _)
process_orders_loop(st, ids) ==
    IF ids = <<>> \/ st.raised # "" THEN st
    ELSE process_orders_loop(process_one_order(st, Head(ids)), Tail(ids))

\* one pass of `for order_id in order_ids` of process_cancellations, c being
\* the result of the owning side's cancel
\* (st.cancelled and st.ignored are history: how many ids of the list were
\* handed to a side's cancel and how many were passed over)
after_cancel(st, on_bids, c) ==
    IF on_bids
    THEN [st EXCEPT !.bids = c.book, !.raised = c.raised, !.cancelled = @ + 1]
    ELSE [st EXCEPT !.asks = c.book, !.raised = c.raised, !.cancelled = @ + 1]

\* faulty variant: an id found on neither side is an error
cancel_one_strict(st, order_id) ==
    IF order_id \in st.bids.order_map \/ order_id \in st.asks.order_map
    THEN after_cancel(st, order_id \in st.bids.order_map,
                      PriceBook_cancel(IF order_id \in st.bids.order_map
                                       THEN st.bids ELSE st.asks,
                                       order_id, st.o))
    ELSE [st EXCEPT !.raised = "KeyError"]

cancel_one(st, order_id) ==
    IF order_id \in st.bids.order_map \/ order_id \in st.asks.order_map
    THEN after_cancel(st, order_id \in st.bids.order_map,
                      PriceBook_cancel(IF order_id \in st.bids.order_map
                                       THEN st.bids ELSE st.asks,
                                       order_id, st.o))
    ELSE [st EXCEPT !.ignored = @ + 1]

RECURSIVE process_cancellations_loop(_, _)
process_cancellations_loop(st, order_ids) ==
    IF order_ids = <<>> \/ st.raised # "" THEN st
    ELSE process_cancellations_loop(cancel_one(st, Head(order_ids)),
                                    Tail(order_ids))

\* ids of the orders a side still references (index and FIFOs)
Resident(book) ==
    book.order_map \cup
    UNION {SeqToSet(book.price_levels[p].orders) : p \in DOMAIN book.price_levels}

\* the record kept in `last`; cancelled and ignored are filled in by the
\* cancelling calls, view and undo as described at View and Undo
Call(op, args, pre, post, trades, result, raised) ==
    [op |-> op, args |-> args, pre |-> pre, post |-> post, trades |-> trades,
     result |-> result, raised |-> raised,
     cancelled |-> 0, ignored |-> 0, view |-> None, undo |-> None]

\* the state a cancellation loop starts from
CancelStart(b, a, o) ==
    [bids |-> b, asks |-> a, o |-> o, raised |-> "", cancelled |-> 0,
     ignored |-> 0]

\* ------------------------------------------------------------------- Init
Init ==
    /\ bids = PriceBook(TRUE)
    /\ asks = PriceBook(FALSE)
    /\ wheel = ExpirationWheel(MinLifetime, MaxLifetime)
    /\ trade_history = <<>>
    /\ order_store = <<>>
    /\ id_counter = 0
    /\ last = Call("init", <<>>, <<>>, <<>>, <<>>, None, "")

\* ---------------------------------------------------------------- actions
\* constructor arguments of the orders a caller may build
LimitArgs(P, V, T, L) ==
    [price : P, volume : V, is_bid : BOOLEAN, is_market : {FALSE},
     trader_id : T, lifetime : L]

\* MarketOrder(volume, is_bid, trader_id) takes no price; the field only
\* keeps the two kinds of argument records comparable
MarketArgs(V, T) ==
    [price : {0}, volume : V, is_bid : BOOLEAN, is_market : {TRUE},
     trader_id : T, lifetime : {None}]

Construct(id, a) ==
    IF a.is_market THEN MarketOrder(id, a.volume, a.is_bid, a.trader_id)
    ELSE Order(id, a.price, a.volume, a.is_bid, FALSE, a.trader_id, a.lifetime)

\* faulty variant: the counter is read once for the whole batch
BatchIds_reused(batch) == [i \in 1..Len(batch) |-> id_counter]

\* the ids the class counter hands to a batch built now
BatchIds(batch) == [i \in 1..Len(batch) |-> id_counter + i - 1]

\* the Order objects in play: the resting ones and the batch just built
WithBatch(batch) ==
    order_store @@
    [id \in id_counter..(id_counter + Len(batch) - 1) |->
        Construct(id, batch[id - id_counter + 1])]

\* history: what the depth and best-price queries answer on books b and a
View(b, a) ==
    [bid_depth |-> PriceBook_get_depth(b),
     ask_depth |-> PriceBook_get_depth(a),
     best_bid |-> PriceBook_get_best_price(b).result,
     best_ask |-> PriceBook_get_best_price(a).result]

\* the state a finished process_orders leaves: st after the loop, pt the
\* result of _process_trades (not reached when the loop raised); last.view
\* keeps the View the call started from
process_orders_done(ids, o0, st, pt) ==
    /\ bids' = st.bids
    /\ asks' = st.asks
    /\ wheel' = st.wheel
    /\ order_store' = Restrict(st.o, Resident(st.bids) \cup Resident(st.asks))
    /\ IF st.raised = ""
       THEN /\ trade_history' = Append(trade_history, pt.entry)
            /\ last' = [Call("process_orders", ids, o0, st.o, st.trades,
                             pt.trader_notifs, "")
                          EXCEPT !.view = Some(View(bids, asks))]
       ELSE /\ trade_history' = trade_history
            /\ last' = [Call("process_orders", ids, o0, st.o, st.trades,
                             None, st.raised)
                          EXCEPT !.view = Some(View(bids, asks))]

process_orders_trades(ids, o0, st) ==
    process_orders_done(ids, o0, st, OrderBook_process_trades(st.trades, st.o))

\* the caller builds the orders of the batch (ids from the class counter)
\* and hands them to OrderBook.process_orders
process_orders(batch) ==
    /\ Len(batch) >= 1
    /\ id_counter' = id_counter + Len(batch)
    /\ process_orders_trades(
         BatchIds(batch), WithBatch(batch),
         process_orders_loop(
             [bids |-> bids, asks |-> asks, wheel |-> wheel,
              o |-> WithBatch(batch), trades |-> <<>>, raised |-> ""],
             BatchIds(batch)))

\* history: when process_cancellations is given exactly the id of the one
\* order that the call before it rested in full (no trade), the order and
\* the View from before that submission
Undo(order_ids) ==
    IF /\ last.op = "process_orders" /\ last.raised = ""
       /\ Len(order_ids) = 1 /\ last.args = order_ids
       /\ last.trades = <<>>
       /\ order_ids[1] \in bids.order_map \cup asks.order_map
    THEN Some([order |-> order_store[order_ids[1]], view |-> last.view[1]])
    ELSE None

\* the state the cancellation loop leaves
cancellations_done(op, undo, st) ==
    /\ bids' = st.bids
    /\ asks' = st.asks
    /\ order_store' = Restrict(st.o, Resident(st.bids) \cup Resident(st.asks))
    /\ last' = [Call(op, <<>>, <<>>, <<>>, <<>>, None, st.raised)
                  EXCEPT !.cancelled = st.cancelled, !.ignored = st.ignored,
                         !.undo = undo]

process_cancellations(order_ids) ==
    /\ cancellations_done(
         "process_cancellations", Undo(order_ids),
         process_cancellations_loop(CancelStart(bids, asks, order_store),
                                    order_ids))
    /\ UNCHANGED <<wheel, trade_history, id_counter>>

\* history: one more advance() call in the life of every order
Tick(o) ==
    [id \in DOMAIN o |->
        [o[id] EXCEPT !.age = IF @ < MaxLifetime THEN @ + 1 ELSE @]]

advance ==
    /\ wheel' = ExpirationWheel_advance(wheel).wheel
    /\ cancellations_done(
         "advance", None,
         process_cancellations_loop(
             CancelStart(bids, asks, Tick(order_store)),
             ExpirationWheel_advance(wheel).expired))
    /\ UNCHANGED <<trade_history, id_counter>>

\* the state a best-price query leaves
best_bid_done(q) ==
    /\ bids' = q.book
    /\ last' = Call("get_best_bid", <<>>, DOMAIN bids.price_levels, <<>>,
                    <<>>, q.result, "")

get_best_bid ==
    /\ best_bid_done(PriceBook_get_best_price(bids))
    /\ UNCHANGED <<asks, wheel, trade_history, order_store, id_counter>>

best_ask_done(q) ==
    /\ asks' = q.book
    /\ last' = Call("get_best_ask", <<>>, DOMAIN asks.price_levels, <<>>,
                    <<>>, q.result, "")

get_best_ask ==
    /\ best_ask_done(PriceBook_get_best_price(asks))
    /\ UNCHANGED <<bids, wheel, trade_history, order_store, id_counter>>

\* the caller builds an order and never submits it: Order.__init__ takes
\* the id from the class counter and increments it
construct(a) ==
    /\ id_counter' = id_counter + 1
    /\ last' = Call("construct", <<id_counter>>,
                    id_counter :> Construct(id_counter, a), <<>>, <<>>,
                    None, "")
    /\ UNCHANGED <<bids, asks, wheel, trade_history, order_store>>

\* faulty variant: the ask side is left as it is
clear_bids_only ==
    /\ bids' = PriceBook(TRUE)
    /\ wheel' = ExpirationWheel(MinLifetime, MaxLifetime)
    /\ trade_history' = <<>>
    /\ order_store' = Restrict(order_store, Resident(asks))
    /\ last' = Call("clear", <<>>, Resident(bids) \cup Resident(asks), <<>>,
                    <<>>, None, "")
    /\ UNCHANGED <<asks, id_counter>>

\* OrderBook.clear(): "reset all state except the global id counter"; the
\* state of the engine is bids, asks, the wheel and trade_history.  last.pre
\* keeps the ids that were resting
clear ==
    /\ bids' = PriceBook(TRUE)
    /\ asks' = PriceBook(FALSE)
    /\ wheel' = ExpirationWheel(MinLifetime, MaxLifetime)
    /\ trade_history' = <<>>
    /\ order_store' = <<>>
    /\ last' = Call("clear", <<>>, Resident(bids) \cup Resident(asks), <<>>,
                    <<>>, None, "")
    /\ UNCHANGED id_counter

\* pure queries
OrderBook_get_bid_depth == PriceBook_get_depth(bids)
OrderBook_get_ask_depth == PriceBook_get_depth(asks)

\* dict.values() of an id index: the ids in insertion order.  An order is
\* inserted by the call that follows its construction, so insertion order
\* is ascending id order
RECURSIVE order_map_values(_)
order_map_values(ids) ==
    IF ids = {} THEN <<>>
    ELSE LET first == CHOOSE x \in ids : \A y \in ids : x <= y
         IN <<first>> \o order_map_values(ids \ {first})

\* faulty variant: only the ask index is scanned
unfilled_orders_asks_only(trader_id) ==
    LET mine == SelectSeq(order_map_values(asks.order_map),
                          LAMBDA i : order_store[i].trader_id = trader_id)
    IN [k \in 1..Len(mine) |->
          <<order_store[mine[k]].id, order_store[mine[k]].price,
            order_store[mine[k]].volume>>]

\* the list built from chain(asks.order_map.values(),
\* bids.order_map.values())
OrderBook_unfilled_orders(trader_id) ==
    LET mine == SelectSeq(order_map_values(asks.order_map)
                              \o order_map_values(bids.order_map),
                          LAMBDA i : order_store[i].trader_id = trader_id)
    IN [k \in 1..Len(mine) |->
          <<order_store[mine[k]].id, order_store[mine[k]].price,
            order_store[mine[k]].volume>>]

\* ------------------------------------------------------------ specification
Batches(A) == {<<a>> : a \in A}

\* batches of 1..n orders
RECURSIVE BatchesUpTo(_, _)
BatchesUpTo(A, n) ==
    IF n = 0 THEN {}
    ELSE LET shorter == BatchesUpTo(A, n - 1) IN
         Batches(A) \cup shorter
         \cup {Append(b, a) : b \in {c \in shorter : Len(c) = n - 1}, a \in A}

\* arguments of process_cancellations: one id, resident or not (id_counter is
\* the id of an order not built yet), or the same id twice
CancelArgs == {<<i>> : i \in 0..id_counter} \cup
              {<<i, i>> : i \in 0..(id_counter - 1)}

\* one id, resident or not
CancelOnce == {<<i>> : i \in 0..id_counter}

MainArgs == LimitArgs(Prices, Volumes, {None}, Lifetimes)
            \cup MarketArgs(Volumes, {None})

\* Spec: limit and market orders over several prices, cancellation, expiry
Next ==
    \/ \E batch \in Batches(MainArgs) :
           id_counter + Len(batch) <= MaxOrders /\ process_orders(batch)
    \/ \E order_ids \in CancelOnce : process_cancellations(order_ids)
    \/ advance

Spec == Init /\ [][Next]_vars

\* SpecFifo: one price, one more order
FifoArgs == LimitArgs({1}, Volumes, {None}, Lifetimes)
            \cup MarketArgs(Volumes, {None})

NextFifo ==
    \/ \E batch \in Batches(FifoArgs) :
           id_counter + Len(batch) <= MaxOrders + 1 /\ process_orders(batch)
    \/ \E order_ids \in CancelArgs : process_cancellations(order_ids)

SpecFifo == Init /\ [][NextFifo]_vars

\* SpecBatch: batches of several orders
NextBatch ==
    \/ \E batch \in BatchesUpTo(MainArgs, MaxBatch) :
           id_counter + Len(batch) <= MaxOrders /\ process_orders(batch)
    \/ \E order_ids \in CancelOnce : process_cancellations(order_ids)

SpecBatch == Init /\ [][NextBatch]_vars

\* SpecQuery: the best-price queries next to the mutating calls; unit
\* volumes, prices from 0
QueryArgs == LimitArgs(0..MaxPrice, {1}, {None}, Lifetimes)
             \cup MarketArgs({1}, {None})

NextQuery ==
    \/ \E batch \in Batches(QueryArgs) :
           id_counter + Len(batch) <= MaxOrders /\ process_orders(batch)
    \/ \E order_ids \in CancelOnce : process_cancellations(order_ids)
    \/ advance
    \/ get_best_bid
    \/ get_best_ask

SpecQuery == Init /\ [][NextQuery]_vars

\* SpecCancel: one price; cancellation lists with unknown, dead and repeated
\* ids next to expiry
NextCancel ==
    \/ \E batch \in Batches(FifoArgs) :
           id_counter + Len(batch) <= MaxOrders /\ process_orders(batch)
    \/ \E order_ids \in CancelArgs : process_cancellations(order_ids)
    \/ advance

SpecCancel == Init /\ [][NextCancel]_vars

\* SpecExpiry: one price, orders with and without a lifetime of their own
\* (shorter than the wheel)
ExpiryLifetimes == {None} \cup {Some(k) : k \in 1..(MaxLifetime - 1)}

ExpiryArgs == LimitArgs({1}, Volumes, {None}, ExpiryLifetimes)

NextExpiry ==
    \/ \E batch \in Batches(ExpiryArgs) :
           id_counter + Len(batch) <= MaxOrders /\ process_orders(batch)
    \/ \E order_ids \in CancelOnce : process_cancellations(order_ids)
    \/ advance

SpecExpiry == Init /\ [][NextExpiry]_vars

\* SpecNotify: batches of orders of two traders and anonymous ones (bids
\* of trader 1 or anonymous, asks of trader 1 or trader 2)
NotifyTraders == {None, Some(1), Some(2)}

NotifyArgs ==
    {a \in LimitArgs(Prices, Volumes, NotifyTraders, {None}) :
        IF a.is_bid THEN a.trader_id # Some(2) ELSE a.trader_id # None}

NotifyBatches == BatchesUpTo(NotifyArgs, MaxBatch)

NextNotify ==
    \E batch \in NotifyBatches :
        id_counter + Len(batch) <= MaxOrders /\ process_orders(batch)

SpecNotify == Init /\ [][NextNotify]_vars

\* SpecTrader: one price; limit orders of two traders and anonymous market
\* orders, with cancellation and expiry
TraderArgs == LimitArgs({1}, Volumes, {Some(1), Some(2)}, Lifetimes)
              \cup MarketArgs({1}, {None})

NextTrader ==
    \/ \E batch \in Batches(TraderArgs) :
           id_counter + Len(batch) <= MaxOrders /\ process_orders(batch)
    \/ \E order_ids \in CancelOnce : process_cancellations(order_ids)
    \/ advance

SpecTrader == Init /\ [][NextTrader]_vars

\* SpecHistory: batches of unit limit orders and of market orders, with
\* cancellation, expiry and the best-price queries
HistoryArgs == LimitArgs(Prices, {1}, {None}, Lifetimes)
               \cup MarketArgs(Volumes, {None})

HistoryBatches == BatchesUpTo(HistoryArgs, MaxBatch)

NextHistory ==
    \/ \E batch \in HistoryBatches :
           id_counter + Len(batch) <= MaxOrders /\ process_orders(batch)
    \/ \E order_ids \in CancelOnce : process_cancellations(order_ids)
    \/ advance
    \/ get_best_bid
    \/ get_best_ask

SpecHistory == Init /\ [][NextHistory]_vars

\* SpecClear: the calls of SpecTrader without cancellation, and clear()
NextClear ==
    \/ \E batch \in Batches(TraderArgs) :
           id_counter + Len(batch) <= MaxOrders /\ process_orders(batch)
    \/ advance
    \/ clear

SpecClear == Init /\ [][NextClear]_vars

\* SpecVolume: one price; orders built with volume 1 and with the volumes
\* Order.__init__ takes without complaint although they are not positive
BadVolumes == {-1, 0}

VolumeArgs == LimitArgs({1}, BadVolumes \cup {1}, {None}, Lifetimes)
              \cup MarketArgs(BadVolumes \cup {1}, {None})

NextVolume ==
    \/ \E batch \in Batches(VolumeArgs) :
           id_counter + Len(batch) <= MaxOrders /\ process_orders(batch)
    \/ \E order_ids \in CancelOnce : process_cancellations(order_ids)
    \/ advance

SpecVolume == Init /\ [][NextVolume]_vars

\* SpecIds: one price, unit volumes; orders built and submitted in batches
\* and orders built and dropped
IdArgs == LimitArgs({1}, {1}, {None}, Lifetimes) \cup MarketArgs({1}, {None})

IdBatches == BatchesUpTo(IdArgs, MaxBatch)

NextIds ==
    \/ \E batch \in IdBatches :
           id_counter + Len(batch) <= MaxOrders /\ process_orders(batch)
    \/ \E a \in IdArgs : id_counter + 1 <= MaxOrders /\ construct(a)
    \/ \E order_ids \in CancelOnce : process_cancellations(order_ids)
    \/ advance

SpecIds == Init /\ [][NextIds]_vars

\* ------------------------------------------------------------- properties
Max(S) == CHOOSE x \in S : \A y \in S : y <= x
Min(S) == CHOOSE x \in S : \A y \in S : x <= y

IsProcessOrders == last.op = "process_orders"
TradeIdx == 1..Len(last.trades)

\* the side an incoming order is matched against
RestingSide(t) == IF t.g.incoming_is_bid THEN asks ELSE bids

\* C1: price priority.  For every trade of a process_orders call, at the
\* moment of the trade the resting order's price is the best price among the
\* non-empty levels of its side (lowest ask, highest bid): no order at a
\* worse price is filled while an order at a better price rests.
C1_PricePriority ==
    IsProcessOrders =>
      \A i \in TradeIdx :
        LET t == last.trades[i] IN
          /\ t.g.resting_price \in t.g.occupied
          /\ IF t.g.incoming_is_bid
             THEN \A p \in t.g.occupied : t.g.resting_price <= p
             ELSE \A p \in t.g.occupied : t.g.resting_price >= p

\* a trade took place while two or more levels of the resting side held orders
C1_Witness ==
    /\ IsProcessOrders
    /\ \E i \in TradeIdx : Cardinality(last.trades[i].g.occupied) >= 2

\* C2: time priority within a level.  A resting order is filled only when no
\* order added to its level before it is still in the level (orders are
\* submitted in the order they are built, so a smaller id means an earlier
\* insertion).
C2_TimePriority ==
    IsProcessOrders =>
      \A i \in TradeIdx :
        LET t == last.trades[i] IN
          /\ t.g.resting \in SeqToSet(t.g.queue)
          /\ \A j \in SeqToSet(t.g.queue) : t.g.resting <= j

\* a trade took place at a level that held two or more orders
C2_Witness ==
    /\ IsProcessOrders
    /\ \E i \in TradeIdx : Len(last.trades[i].g.queue) >= 2

\* C3, first part: after a call whose last trade left the resting order
\* partly filled, that order is the head of its level with its volume
\* reduced by the traded amount
PartialFillKeepsHead ==
    (IsProcessOrders /\ last.trades # <<>>) =>
      LET t == last.trades[Len(last.trades)]
          book == RestingSide(t)
      IN t.g.incoming_volume < t.g.resting_volume =>
           /\ t.price \in DOMAIN book.price_levels
           /\ book.price_levels[t.price].orders # <<>>
           /\ Head(book.price_levels[t.price].orders) = t.g.resting
           /\ t.g.resting \in book.order_map
           /\ order_store[t.g.resting].volume = t.g.resting_volume - t.volume

\* C3, second part: the first trade a call makes at a level is with the
\* order that headed the level before the call
FirstFillIsHead(book) ==
    last'.op = "process_orders" =>
      \A i \in 1..Len(last'.trades) :
        LET t == last'.trades[i] IN
          ( /\ t.g.incoming_is_bid # book.is_bid_side
            /\ \A k \in 1..(i-1) : last'.trades[k].price # t.price
            /\ t.price \in Occupied(book) )
          => t.g.resting = Head(book.price_levels[t.price].orders)

\* C3, third part: nothing overtakes: the orders of a level that stay in it
\* keep their order, and orders added to the level come behind them
NoOvertaking(book, book1) ==
    \A p \in Occupied(book) :
      LET q == book.price_levels[p].orders
          q1 == IF p \in DOMAIN book1.price_levels
                THEN book1.price_levels[p].orders ELSE <<>>
          stay == SelectSeq(q, LAMBDA x : x \in SeqToSet(q1))
      IN /\ Len(stay) <= Len(q1)
         /\ SubSeq(q1, 1, Len(stay)) = stay
         /\ \A k \in (Len(stay)+1)..Len(q1) : q1[k] \notin SeqToSet(q)

\* C3: partial fills preserve priority.  A head order that is only partly
\* filled stays at the front of its level with its volume reduced by the
\* traded amount, no later order gets in front of it, and the next order
\* that trades at that level trades with it first.
C3_PartialFillPriority ==
    [][ /\ PartialFillKeepsHead'
        /\ FirstFillIsHead(bids) /\ FirstFillIsHead(asks)
        /\ NoOvertaking(bids, bids') /\ NoOvertaking(asks, asks') ]_vars

\* the first trade of a call is with a head order that an earlier call had
\* partly filled, and another order waits behind it
C3_Witness ==
    /\ IsProcessOrders
    /\ last.trades # <<>>
    /\ LET t == last.trades[1] IN
         /\ Len(t.g.queue) >= 2
         /\ t.g.resting = Head(t.g.queue)
         /\ last.pre[t.g.resting].volume < last.pre[t.g.resting].volume0

\* C4: every trade executes at the price of the resting order (the price of
\* its level), and an incoming limit order never trades through its limit:
\* a limit bid at p trades at prices <= p, a limit ask at p at prices >= p.
C4_TradeWithinLimit ==
    IsProcessOrders =>
      \A i \in TradeIdx :
        LET t == last.trades[i]
            inc == last.pre[t.g.incoming]
            rest == last.pre[t.g.resting]
        IN /\ t.price = rest.price
           /\ ~inc.is_market =>
                IF inc.is_bid THEN t.price <= inc.price
                ELSE t.price >= inc.price

\* an incoming limit order traded at a price strictly better than its limit
C4_Witness ==
    /\ IsProcessOrders
    /\ \E i \in TradeIdx :
         LET t == last.trades[i]
             inc == last.pre[t.g.incoming]
         IN ~inc.is_market /\ t.price # inc.price

\* the resting orders of a side: the id index and the FIFO of each level
\* that holds orders
RestingView(book) ==
    [order_map |-> book.order_map,
     queues |-> [p \in Occupied(book) |-> book.price_levels[p].orders]]

NoMarketOrderRests ==
    \A id \in Resident(bids) \cup Resident(asks) : ~order_store[id].is_market

MarketOrderOnEmptySide ==
    ( /\ last'.op = "process_orders"
      /\ Len(last'.args) = 1
      /\ last'.pre[last'.args[1]].is_market
      /\ (IF last'.pre[last'.args[1]].is_bid THEN asks ELSE bids).order_map = {} )
    => /\ last'.trades = <<>>
       /\ RestingView(bids') = RestingView(bids)
       /\ RestingView(asks') = RestingView(asks)
       /\ order_store' = order_store

TradedVolume(id) ==
    SumSeq([i \in TradeIdx |->
              IF id \in {last.trades[i].bid_order, last.trades[i].ask_order}
              THEN last.trades[i].volume ELSE 0])

Decrease(ids) ==
    SumSet(ids, [id \in ids |-> last.pre[id].volume - last.post[id].volume])

\* C6: volume conservation.  Each trade has volume >= 1 and is between one
\* bid and one ask; every order's volume decreases by exactly the volume of
\* the trades it took part in (so an order in no trade keeps its volume), and
\* the sum of the trade volumes of a batch equals the total decrease of the
\* bid orders and the total decrease of the ask orders.
C6_VolumeConservation ==
    IsProcessOrders =>
      LET all == DOMAIN last.pre
          total == SumSeq([i \in TradeIdx |-> last.trades[i].volume])
      IN /\ DOMAIN last.post = all
         /\ \A i \in TradeIdx :
              /\ last.trades[i].volume >= 1
              /\ last.pre[last.trades[i].bid_order].is_bid
              /\ ~last.pre[last.trades[i].ask_order].is_bid
         /\ \A id \in all :
              last.pre[id].volume - last.post[id].volume = TradedVolume(id)
         /\ total = Decrease({id \in all : last.pre[id].is_bid})
         /\ total = Decrease({id \in all : ~last.pre[id].is_bid})
         /\ \A id \in DOMAIN order_store : order_store[id] = last.post[id]

\* a batch of two or more orders produced two or more trades
C6_Witness ==
    IsProcessOrders /\ Len(last.args) >= 2 /\ Len(last.trades) >= 2

\* the sum of order.volume over a side's id index
IndexVolume(book) ==
    SumSet(book.order_map, [id \in book.order_map |-> order_store[id].volume])

\* the sum of the volumes of the orders in a level's FIFO
QueueVolume(level) ==
    SumSeq([i \in 1..Len(level.orders) |-> order_store[level.orders[i]].volume])

\* C7: depth equals the volume in the id index.  After any sequence of
\* process_orders, process_cancellations and advance calls, get_bid_depth()
\* is the sum of order.volume over bids.order_map and get_ask_depth() the sum
\* over asks.order_map.
C7_DepthEqualsIndexVolume ==
    /\ OrderBook_get_bid_depth = IndexVolume(bids)
    /\ OrderBook_get_ask_depth = IndexVolume(asks)

\* C8: in every reachable state the running volume of each price level is
\* the sum of the remaining volumes of the orders in its FIFO.
C8_LevelVolumeEqualsQueueVolume ==
    \A book \in {bids, asks} :
      \A p \in DOMAIN book.price_levels :
        book.price_levels[p].volume = QueueVolume(book.price_levels[p])

SideConsistent(book) ==
    LET ps == DOMAIN book.price_levels
        held == UNION {SeqToSet(book.price_levels[p].orders) : p \in ps}
    IN /\ book.order_map = held
       /\ SumSet(ps, [p \in ps |-> Len(book.price_levels[p].orders)])
            = Cardinality(book.order_map)
       /\ \A p \in ps :
            /\ book.price_levels[p].price = p
            /\ \A id \in SeqToSet(book.price_levels[p].orders) :
                 /\ id \in DOMAIN order_store
                 /\ order_store[id].id = id
                 /\ order_store[id].price = p
                 /\ order_store[id].is_bid = book.is_bid_side
       /\ \A p \in Occupied(book) :
            heap_price(book, p) \in SeqToSet(book.heap)

\* C9: on each side the ids of order_map are exactly the ids of the orders
\* held in the side's level FIFOs, each order is held once and in the level
\* of its own price, and the price of every level that holds an order is on
\* the heap.
C9_IndexMatchesLevels == SideConsistent(bids) /\ SideConsistent(asks)

\* a side holds two orders next to a level that a cancellation or an expiry
\* emptied and that is still there
C9_Witness ==
    \E book \in {bids, asks} :
      /\ Cardinality(book.order_map) >= 2
      /\ \E p \in DOMAIN book.price_levels : book.price_levels[p].orders = <<>>

BestOf(book) ==
    IF Occupied(book) = {} THEN None
    ELSE IF book.is_bid_side THEN Some(Max(Occupied(book)))
    ELSE Some(Min(Occupied(book)))

\* C10: get_best_bid() returns the highest price among the bid levels that
\* hold an order, get_best_ask() the lowest such ask price, and each returns
\* None exactly when its side has no resting order.
C10_BestPrice ==
    /\ last.op = "get_best_bid" =>
         /\ last.result = BestOf(bids)
         /\ (last.result = None) <=> (bids.order_map = {})
    /\ last.op = "get_best_ask" =>
         /\ last.result = BestOf(asks)
         /\ (last.result = None) <=> (asks.order_map = {})

\* a best-price query answered over levels that had been emptied and were
\* still on the heap: it skipped a better-priced empty level, or found only
\* empty levels
C10_Witness ==
    /\ last.op = "get_best_bid"
    /\ last.pre # {}
    /\ \/ last.result = None
       \/ \E p \in last.pre : p > last.result[1]

\* a FIFO without the ids of a set
Without(q, gone) == SelectSeq(q, LAMBDA x : x \notin gone)

\* a side after a cancelling call that was given the ids `given`: the ones
\* resident on it are gone, everything else is where and as it was
SideAfterCancel(book, book1, given) ==
    /\ book1.order_map = book.order_map \ given
    /\ DOMAIN book1.price_levels = DOMAIN book.price_levels
    /\ \A p \in DOMAIN book.price_levels :
         book1.price_levels[p].orders = Without(book.price_levels[p].orders, given)
    /\ \A id \in Resident(book1) :
         order_store'[id].volume = order_store[id].volume
    /\ (given \cap Resident(book) = {}) => book1 = book

CancelEffect(given) ==
    /\ last'.raised = ""
    /\ SideAfterCancel(bids, bids', given)
    /\ SideAfterCancel(asks, asks', given)

\* C11: an id that is resident on neither side when its turn comes (never
\* submitted, filled, cancelled, expired, or repeated in the list) raises
\* nothing and changes nothing: process_cancellations, and advance() with
\* the ids the wheel emits, end without error, remove exactly the ids that
\* were resident and leave every other resting order, its volume and its
\* place in its FIFO as they were (both books untouched when no id of the
\* list was resident).
C11_GoneIdsIgnored ==
    [][ /\ \A order_ids \in CancelArgs :
             process_cancellations(order_ids) => CancelEffect(SeqToSet(order_ids))
        /\ advance =>
             CancelEffect(SeqToSet(ExpirationWheel_advance(wheel).expired)) ]_vars

\* a process_cancellations call cancelled an id, passed over its repetition,
\* and left another order resting
C11_Witness ==
    /\ last.op = "process_cancellations"
    /\ last.cancelled = 1 /\ last.ignored = 1
    /\ Resident(bids) \cup Resident(asks) # {}

\* the lifetime the wheel schedules an order with
EffectiveLifetime(order) ==
    IF order.lifetime # None THEN order.lifetime[1] ELSE wheel.min_lifetime

\* the resting orders the expiry claims are about
Expiring ==
    {id \in Resident(bids) \cup Resident(asks) :
        /\ 0 < EffectiveLifetime(order_store[id])
        /\ EffectiveLifetime(order_store[id]) < wheel.max_lifetime}

AgeBelowLifetime ==
    \A id \in Expiring :
        order_store[id].age < EffectiveLifetime(order_store[id])

\* C12: a resting order with effective lifetime k, 0 < k < max_lifetime,
\* that is neither filled nor cancelled survives the first k-1 advance()
\* calls after its submission and is removed by the k-th: an advance() call
\* keeps the order exactly when it is not yet the k-th one, and no order is
\* in the book with k or more advance() calls behind it.
C12_ExpiresOnKthAdvance ==
    [][ /\ AgeBelowLifetime'
        /\ advance =>
             \A id \in Expiring :
                 (id \in Resident(bids') \cup Resident(asks'))
                 <=> (order_store[id].age + 1
                          < EffectiveLifetime(order_store[id])) ]_vars

\* an advance() call expired an order while another one, which has already
\* been through an advance() call, stays in the book
C12_Witness ==
    /\ last.op = "advance"
    /\ last.cancelled >= 1
    /\ \E id \in Expiring : order_store[id].age >= 1

\* the resting orders whose k-th advance() call is the next one
Due ==
    {id \in Expiring :
        order_store[id].age + 1 = EffectiveLifetime(order_store[id])}

RECURSIVE Ascending(_)
Ascending(S) ==
    IF S = {} THEN <<>> ELSE <<Min(S)>> \o Ascending(S \ {Min(S)})

\* what process_cancellations(order_ids), called now, would leave
Cancelled(order_ids) ==
    process_cancellations_loop(CancelStart(bids, asks, order_store), order_ids)

SameBookAs(c) ==
    /\ c.raised = "" /\ last'.raised = ""
    /\ bids' = c.bids
    /\ asks' = c.asks
    /\ View(bids', asks') = View(c.bids, c.asks)
    /\ DOMAIN order_store' = Resident(c.bids) \cup Resident(c.asks)
    /\ \A id \in DOMAIN order_store' :
         order_store'[id].volume = c.o[id].volume

\* C13: expiry equivalence.  When every resting order has a lifetime k with
\* 0 < k < max_lifetime, the advance() call that is the k-th one for some
\* resting orders leaves the books (index, levels, FIFOs, volumes, heap, and
\* so best prices and depths) exactly as process_cancellations, called at
\* that instant with the ids of those orders, would leave them.
C13_ExpiryIsCancellation ==
    [][ ( /\ advance
          /\ Due # {}
          /\ Resident(bids) \cup Resident(asks) \subseteq Expiring )
        => SameBookAs(Cancelled(Ascending(Due))) ]_vars

\* an advance() call expired one order, passed over an id the wheel still
\* held for an order that had gone, and left another order resting
C13_Witness ==
    /\ last.op = "advance"
    /\ last.cancelled = 1 /\ last.ignored >= 1
    /\ Resident(bids) \cup Resident(asks) # {}

\* C14: round-trip cancel.  When a limit order that does not cross is
\* submitted (it rests in full) and is then cancelled by its id,
\* get_bid_depth(), get_ask_depth(), get_best_bid() and get_best_ask() answer
\* what they answered before the submission, and unfilled_orders lists the
\* id for no trader.
C14_RoundTripCancel ==
    (last.op = "process_cancellations" /\ last.undo # None) =>
      /\ last.raised = ""
      /\ View(bids, asks) = last.undo[1].view
      /\ \A t \in Traders :
           \A e \in SeqToSet(OrderBook_unfilled_orders(t)) :
               e[1] # last.undo[1].order.id

\* what process_orders([order]) leaves when called on books b and a with
\* wheel w, the resting Order objects being those of store o
AloneOn(b, a, w, o, order) ==
    process_orders_loop(
        [bids |-> b, asks |-> a, wheel |-> w, o |-> o @@ (order.id :> order),
         trades |-> <<>>, raised |-> ""],
        <<order.id>>)

\* the second of two calls, s1 being what the first one left
AloneAfter(s1, order) ==
    AloneOn(s1.bids, s1.asks, s1.wheel,
            Restrict(s1.o, Resident(s1.bids) \cup Resident(s1.asks)), order)

\* what the two calls leave together: the trades of both and the end state
OneByOne(s1, s2) ==
    /\ s1.raised = "" /\ s2.raised = "" /\ last'.raised = ""
    /\ last'.trades = s1.trades \o s2.trades
    /\ bids' = s2.bids
    /\ asks' = s2.asks
    /\ wheel' = s2.wheel
    /\ order_store' = Restrict(s2.o, Resident(s2.bids) \cup Resident(s2.asks))

\* the place of an order in the batch of the step
PlaceInBatch(id) == CHOOSE k \in 1..Len(last'.args) : last'.args[k] = id

TradesInBatchOrder ==
    \A i \in 1..Len(last'.trades) : \A j \in i..Len(last'.trades) :
        PlaceInBatch(last'.trades[i].g.incoming)
            <= PlaceInBatch(last'.trades[j].g.incoming)

\* C15: process_orders takes the orders of a batch in the sequence given
\* and finishes each before the next one starts: the trades of a batch come
\* grouped by incoming order in batch sequence, and a batch [a, b] makes the
\* trades and leaves the books, wheel and orders that process_orders([a])
\* followed by process_orders([b]) makes and leaves.
C15_BatchIsSequential ==
    [][ (last'.op = "process_orders" /\ id_counter' # id_counter) =>
          /\ TradesInBatchOrder
          /\ Len(last'.args) = 2 =>
               OneByOne(
                 AloneOn(bids, asks, wheel, order_store,
                         last'.pre[last'.args[1]]),
                 AloneAfter(AloneOn(bids, asks, wheel, order_store,
                                    last'.pre[last'.args[1]]),
                            last'.pre[last'.args[2]])) ]_vars

\* the first order of a batch traded and rested its residual, and the
\* second order of the batch traded against that residual
C15_Witness ==
    /\ IsProcessOrders /\ Len(last.args) = 2
    /\ \E i \in TradeIdx : last.trades[i].g.incoming = last.args[1]
    /\ \E i \in TradeIdx :
         /\ last.trades[i].g.incoming = last.args[2]
         /\ last.trades[i].g.resting = last.args[1]

\* the notifications of the map the last process_orders call returned, each
\* named by its key and its place in the key's list
NotifKeys ==
    UNION {{<<t, i>> : i \in 1..Len(last.result[t])} : t \in DOMAIN last.result}

Notif(k) == last.result[k[1]][k[2]]

\* the trades of the last call that order id took part in
TradesOf(id) ==
    {i \in TradeIdx :
        id \in {last.trades[i].bid_order, last.trades[i].ask_order}}

\* C16: the map process_orders returns has no None key and no notification
\* for an order without trader_id; a notification listed under key t has
\* trader_id t and is about an order whose trader_id is t.
C16_NotificationRouting ==
    IsProcessOrders =>
      /\ None \notin DOMAIN last.result
      /\ \A k \in NotifKeys :
           /\ Notif(k).trader_id = k[1]
           /\ Notif(k).order_id \in DOMAIN last.post
           /\ last.post[Notif(k).order_id].trader_id = k[1]
           /\ last.post[Notif(k).order_id].trader_id # None

\* a batch notified two traders and also traded an anonymous order
C16_Witness ==
    /\ IsProcessOrders
    /\ Cardinality(DOMAIN last.result) = 2
    /\ \E i \in TradeIdx :
         \/ last.post[last.trades[i].bid_order].trader_id = None
         \/ last.post[last.trades[i].ask_order].trader_id = None

\* C17: in the result of one process_orders call every order with a
\* trader_id that took part in a trade of the batch, as incoming or as
\* resting order, has exactly one notification; an order without a trade in
\* the batch, or without trader_id, has none.
C17_OneNotificationPerOrder ==
    IsProcessOrders =>
      /\ \A k \in NotifKeys : Notif(k).order_id \in DOMAIN last.post
      /\ \A id \in DOMAIN last.post :
           Cardinality({k \in NotifKeys : Notif(k).order_id = id})
             = IF last.post[id].trader_id # None /\ TradesOf(id) # {}
               THEN 1 ELSE 0

\* an order with a trader_id made two trades in the batch, one of them with
\* an anonymous order
C17_Witness ==
    /\ IsProcessOrders
    /\ \E id \in DOMAIN last.post :
         last.post[id].trader_id # None /\ Cardinality(TradesOf(id)) >= 2
    /\ \E id \in DOMAIN last.post :
         last.post[id].trader_id = None /\ TradesOf(id) # {}

\* C18: for every notification n, total_filled_volume is the sum of the
\* values of price_volume and the sum of the volumes of the batch's trades
\* of the order, num_trades is the number of those trades and
\* total_notional the sum of price times volume over them.
C18_AggregatesMatchTrades ==
    IsProcessOrders =>
      \A k \in NotifKeys :
        LET n == Notif(k)
            T == TradesOf(n.order_id)
        IN /\ n.total_filled_volume
                = SumSet(DOMAIN n.price_volume, n.price_volume)
           /\ n.total_filled_volume
                = SumSet(T, [i \in T |-> last.trades[i].volume])
           /\ n.num_trades = Cardinality(T)
           /\ n.total_notional
                = SumSet(T, [i \in T |->
                                last.trades[i].price * last.trades[i].volume])

\* a notification sums trades made at two prices
C18_Witness ==
    /\ IsProcessOrders
    /\ \E k \in NotifKeys : Cardinality(DOMAIN Notif(k).price_volume) >= 2

\* C19: for every notification n of every batch, remaining_volume is the
\* volume the order was created with minus n.total_filled_volume, and
\* is_filled holds exactly when remaining_volume is 0; orders filled in
\* more than one batch included.
C19_RemainingIsOriginalMinusFilled ==
    IsProcessOrders =>
      \A k \in NotifKeys :
        LET n == Notif(k) IN
          /\ n.remaining_volume
               = last.post[n.order_id].volume0 - n.total_filled_volume
          /\ n.is_filled <=> (n.remaining_volume = 0)

\* C20: remaining_volume and is_filled of a notification tell the order's
\* state at the end of the batch: remaining_volume is the volume the order
\* has when process_orders returns and is_filled tells whether that is 0,
\* also when the order's first trade of the batch is followed by further
\* trades of the order in the same batch.
C20_RemainingIsLiveVolume ==
    IsProcessOrders =>
      \A k \in NotifKeys :
        LET n == Notif(k) IN
          /\ n.remaining_volume = last.post[n.order_id].volume
          /\ n.is_filled <=> (last.post[n.order_id].volume = 0)
          /\ n.order_id \in DOMAIN order_store =>
               n.remaining_volume = order_store[n.order_id].volume

\* a resting order was traded against by two orders of the same batch
C20_Witness ==
    /\ IsProcessOrders
    /\ \E k \in NotifKeys :
         /\ Notif(k).num_trades >= 2
         /\ Notif(k).order_id \notin SeqToSet(last.args)

\* the ids of the orders held in the level FIFOs of a side, of both sides
LevelIds(book) ==
    UNION {SeqToSet(book.price_levels[p].orders) : p \in DOMAIN book.price_levels}

InLevels == LevelIds(bids) \cup LevelIds(asks)

\* C21: for every trader t, unfilled_orders(t) holds exactly one tuple
\* (id, price, volume) for each order of t held in a level of either side
\* and no other tuple (nothing for an order that was filled, cancelled or
\* expired); the volume of the tuple is the order's remaining volume: after
\* a process_orders call, the volume it had before the call minus what it
\* traded in the call.
C21_UnfilledOrders ==
    \A t \in NotifyTraders :
      LET listed == OrderBook_unfilled_orders(t)
          mine == {id \in InLevels : order_store[id].trader_id = t}
      IN /\ Len(listed) = Cardinality(mine)
         /\ \A k \in 1..Len(listed) :
              /\ listed[k][1] \in mine
              /\ listed[k][2] = order_store[listed[k][1]].price
              /\ listed[k][3] = order_store[listed[k][1]].volume
              /\ IsProcessOrders =>
                   listed[k][3] = last.pre[listed[k][1]].volume
                                    - TradedVolume(listed[k][1])
         /\ \A id \in mine : \E k \in 1..Len(listed) : listed[k][1] = id

\* a trader has two resting orders, one of them partly filled by the last
\* call, while the other trader has none
C21_Witness ==
    /\ IsProcessOrders
    /\ \E t \in {Some(1), Some(2)} :
         /\ Len(OrderBook_unfilled_orders(t)) = 2
         /\ \E k \in 1..2 :
              LET e == OrderBook_unfilled_orders(t)[k] IN
                TradedVolume(e[1]) >= 1 /\ e[3] < order_store[e[1]].volume0
    /\ \E t \in {Some(1), Some(2)} : OrderBook_unfilled_orders(t) = <<>>

\* C22: every process_orders call appends exactly one entry to
\* trade_history, [sum of the volumes, sum of price * volume] over the
\* trades of the batch ([0, 0] for a batch without trade), and leaves the
\* earlier entries as they were; process_cancellations, advance and the
\* best-price queries leave trade_history unchanged.
C22_TradeHistoryAppendOnly ==
    [][ IF last'.op = "process_orders" /\ id_counter' # id_counter
        THEN trade_history' =
               Append(trade_history,
                      <<SumSeq([i \in 1..Len(last'.trades) |->
                                  last'.trades[i].volume]),
                        SumSeq([i \in 1..Len(last'.trades) |->
                                  last'.trades[i].price
                                    * last'.trades[i].volume])>>)
        ELSE trade_history' = trade_history ]_vars

\* a batch without trade was followed by a call whose trades were made at
\* two prices
C22_Witness ==
    /\ IsProcessOrders
    /\ Len(trade_history) >= 2
    /\ trade_history[1] = <<0, 0>>
    /\ \E i, j \in TradeIdx : last.trades[i].price # last.trades[j].price
    /\ trade_history[Len(trade_history)][2] > trade_history[Len(trade_history)][1]

\* C24: clear() resets the book: after it get_bid_depth() and
\* get_ask_depth() are 0, get_best_bid() and get_best_ask() are None, no
\* order is held by either side, unfilled_orders is empty for every trader,
\* and the order id counter has the value it had before the call.
C24_ClearResets ==
    [][ last'.op = "clear" =>
          /\ View(bids', asks') = [bid_depth |-> 0, ask_depth |-> 0,
                                   best_bid |-> None, best_ask |-> None]
          /\ Resident(bids') \cup Resident(asks') = {}
          /\ \A t \in NotifyTraders : OrderBook_unfilled_orders(t)' = <<>>
          /\ id_counter' = id_counter ]_vars

\* clear() was called on a book with orders resting on it
C24_Witness ==
    /\ last.op = "clear"
    /\ Cardinality(last.pre) >= 2
    /\ id_counter >= 2

\* C25: an Order built with a volume that is not positive is rejected with
\* an error and never enters the book: a process_orders call never goes
\* through with such an order in its batch, and no order with volume <= 0
\* is held in a level or in an id index.
C25_NonPositiveVolumeRejected ==
    /\ IsProcessOrders =>
         \A k \in 1..Len(last.args) :
           last.pre[last.args[k]].volume0 <= 0 => last.raised # ""
    /\ \A id \in Resident(bids) \cup Resident(asks) :
         order_store[id].volume > 0

\* every id handed out so far is below the class counter
IdsBelowCounter ==
    /\ \A id \in DOMAIN order_store :
         order_store[id].id = id /\ id < id_counter
    /\ \A id \in DOMAIN last.pre :
         last.op \in {"process_orders", "construct"} =>
           last.pre[id].id = id /\ id < id_counter

\* C26: of two orders built one after the other (limit or market,
\* submitted or not) the second has the strictly greater id, so no two
\* orders share an id: the ids handed out so far are all below the class
\* counter, the counter never goes down, and the orders a call builds get
\* ids from the counter's value upwards, strictly increasing in the
\* sequence they are built in.
C26_MonotonicIds ==
    [][ /\ IdsBelowCounter'
        /\ id_counter' >= id_counter
        /\ id_counter' # id_counter =>
             /\ last'.op \in {"process_orders", "construct"}
             /\ \A k \in 1..Len(last'.args) :
                  /\ last'.args[k] \in DOMAIN last'.pre
                  /\ last'.pre[last'.args[k]].id = last'.args[k]
                  /\ last'.args[k] >= id_counter
                  /\ \A j \in 1..(k-1) : last'.args[j] < last'.args[k] ]_vars

\* the first batch submitted, a limit order and a market order, was built
\* after an order that was never submitted
C26_Witness ==
    /\ IsProcessOrders
    /\ Len(trade_history) = 1
    /\ Len(last.args) = 2
    /\ last.args[1] >= 1
    /\ \E j, k \in 1..2 :
         last.pre[last.args[j]].is_market /\ ~last.pre[last.args[k]].is_market

\* the side an order of the last call was matched against, as the call
\* left it
OppositeOf(order) == IF order.is_bid THEN asks ELSE bids

\* C27: PriceBook.fill goes on matching while the side has a best price,
\* the incoming order has volume left and the best price crosses the
\* incoming price, whatever the resting price is (0 included): when a call
\* with one incoming order returns and the order has volume left, the side
\* it was matched against holds no order or its best price does not cross
\* the order's price.
C27_FillUntilNoCross ==
    (IsProcessOrders /\ last.raised = "" /\ Len(last.args) = 1) =>
      LET inc == last.post[last.args[1]]
          book == OppositeOf(inc)
      IN inc.volume > 0 =>
           \/ Occupied(book) = {}
           \/ ~can_fill(book, BestOf(book)[1], inc.price)

\* C28: the book is never left crossed or locked: after every
\* process_orders, process_cancellations and advance call, when both sides
\* hold resting orders, get_best_bid() is below get_best_ask() (the spread
\* is positive).
C28_NeverCrossedOrLocked ==
    ( /\ last.op \in {"process_orders", "process_cancellations", "advance"}
      /\ bids.order_map # {} /\ asks.order_map # {} )
    => /\ PriceBook_get_best_price(bids).result # None
       /\ PriceBook_get_best_price(asks).result # None
       /\ PriceBook_get_best_price(bids).result[1]
            < PriceBook_get_best_price(asks).result[1]

\* C29: every order held in a level or an id index has volume >= 1; an
\* order whose volume a fill brings to 0 is out of its level's FIFO before
\* the next trade of the call is made and is held by neither side when the
\* call returns.
C29_RestingVolumePositive ==
    /\ \A id \in Resident(bids) \cup Resident(asks) :
         order_store[id].volume >= 1
    /\ IsProcessOrders =>
         \A i \in TradeIdx :
           last.trades[i].volume = last.trades[i].g.resting_volume =>
             /\ last.trades[i].g.resting
                  \notin Resident(bids) \cup Resident(asks)
             /\ \A j \in (i+1)..Len(last.trades) :
                  last.trades[i].g.resting
                    \notin SeqToSet(last.trades[j].g.queue)

\* an incoming order emptied the head of a level and went on to trade with
\* the order behind it
C29_Witness ==
    /\ IsProcessOrders
    /\ \E i \in TradeIdx :
         /\ i < Len(last.trades)
         /\ last.trades[i].volume = last.trades[i].g.resting_volume
         /\ Len(last.trades[i].g.queue) >= 2
         /\ last.trades[i+1].g.resting = last.trades[i].g.queue[2]

\* how many times an id is in the buckets of the wheel
WheelCount(id) ==
    SumSet(DOMAIN wheel.expiration_bucket,
           [b \in DOMAIN wheel.expiration_bucket |->
              Len(SelectSeq(wheel.expiration_bucket[b], LAMBDA x : x = id))])

\* the volume the incoming order id traded in the last call
ArrivalVolume(id) ==
    SumSeq([i \in TradeIdx |->
              IF last.trades[i].g.incoming = id THEN last.trades[i].volume
              ELSE 0])

\* order `post` (as the call left it) is the last of the FIFO of the level
\* of its price on side own, is in own's index and nowhere on side other
RestsAtTail(post, own, other) ==
    /\ post.id \in own.order_map
    /\ post.id \notin Resident(other)
    /\ post.price \in DOMAIN own.price_levels
    /\ LET queue == own.price_levels[post.price].orders IN
         /\ queue # <<>>
         /\ queue[Len(queue)] = post.id
         /\ \A k \in 1..(Len(queue) - 1) : queue[k] # post.id
    /\ \A p \in DOMAIN own.price_levels :
         p # post.price => post.id \notin SeqToSet(own.price_levels[p].orders)

\* C30: after process_orders([order]) with a limit order, an order that
\* arrival left with volume (partly filled, or not filled) rests on its own
\* side in the level of its limit price, behind every order already there,
\* with its submitted volume minus the volume it traded on arrival, and is
\* in the wheel exactly once; an order that arrival filled in full is held
\* by neither side and is not in the wheel.
C30_ResidualRests ==
    (IsProcessOrders /\ last.raised = "" /\ Len(last.args) = 1
       /\ ~last.pre[last.args[1]].is_market) =>
      LET id == last.args[1]
          post == last.post[id]
      IN /\ post.volume = post.volume0 - ArrivalVolume(id)
         /\ IF ArrivalVolume(id) < post.volume0
            THEN /\ RestsAtTail(post, IF post.is_bid THEN bids ELSE asks,
                                IF post.is_bid THEN asks ELSE bids)
                 /\ order_store[id].volume = post.volume0 - ArrivalVolume(id)
                 /\ order_store[id].price = last.pre[id].price
                 /\ WheelCount(id) = 1
            ELSE /\ id \notin Resident(bids) \cup Resident(asks)
                 /\ WheelCount(id) = 0

\* a limit order traded part of its volume on arrival, while other orders
\* were resting on its own side
C30_Witness ==
    /\ IsProcessOrders /\ Len(last.args) = 1
    /\ ~last.pre[last.args[1]].is_market
    /\ ArrivalVolume(last.args[1]) >= 1
    /\ ArrivalVolume(last.args[1]) < last.post[last.args[1]].volume0
    /\ Cardinality((IF last.post[last.args[1]].is_bid THEN bids
                    ELSE asks).order_map) >= 2

\* the running volumes of the levels of book1 are those of book, less
\* `volume` at price `price`
LevelVolumesLess(book, book1, price, volume) ==
    /\ DOMAIN book1.price_levels = DOMAIN book.price_levels
    /\ \A p \in DOMAIN book.price_levels :
         book1.price_levels[p].volume =
           book.price_levels[p].volume - (IF p = price THEN volume ELSE 0)

\* what process_cancellations([id]) does for an id resting on side own
CancelOneEffect(id, own, own1, other, other1) ==
    /\ last'.raised = ""
    /\ SideAfterCancel(own, own1, {id})
    /\ id \notin Resident(own1)
    /\ LevelVolumesLess(own, own1, order_store[id].price,
                        order_store[id].volume)
    /\ own1.heap = own.heap
    /\ other1 = other
    /\ wheel' = wheel
    /\ trade_history' = trade_history
    /\ DOMAIN order_store' = DOMAIN order_store \ {id}

\* C31: process_cancellations([id]) for a resting id takes exactly that
\* order out of its level and out of the id index and lowers the running
\* volume of that level by the order's remaining volume; every other
\* resting order keeps its volume and its place among the others of its
\* FIFO, and the opposite side, the wheel and trade_history stay as they
\* were.
C31_CancelFrame ==
    [][ last'.op = "process_cancellations" =>
          /\ \A id \in bids.order_map :
               process_cancellations(<<id>>) =>
                 CancelOneEffect(id, bids, bids', asks, asks')
          /\ \A id \in asks.order_map :
               process_cancellations(<<id>>) =>
                 CancelOneEffect(id, asks, asks', bids, bids') ]_vars

\* a cancellation took one order out while orders rest on both sides
C31_Witness ==
    /\ last.op = "process_cancellations"
    /\ last.cancelled = 1
    /\ bids.order_map # {} /\ asks.order_map # {}

\* the ids in the wheel, and how many entries the buckets have
WheelIds ==
    UNION {SeqToSet(wheel.expiration_bucket[b]) :
             b \in DOMAIN wheel.expiration_bucket}

WheelSize ==
    SumSet(DOMAIN wheel.expiration_bucket,
           [b \in DOMAIN wheel.expiration_bucket |->
              Len(wheel.expiration_bucket[b])])

\* no id is in the wheel more than once
InOneBucket == Cardinality(WheelIds) = WheelSize

\* bucket t is bucket s with ids appended that no order had before
GrownBy(s, t) ==
    /\ Len(s) <= Len(t)
    /\ SubSeq(t, 1, Len(s)) = s
    /\ \A k \in (Len(s) + 1)..Len(t) : t[k] >= id_counter

\* the bucket the next advance() call returns
NextBucket ==
    wheel.expiration_bucket[(wheel.now + 1) % wheel.max_lifetime]

\* the book of the scenario: no trade was ever made and every resting
\* order is a lifetime-1 order submitted since the last advance() call
OnlyFreshLifetimeOne ==
    /\ \A i \in 1..Len(trade_history) : trade_history[i] = <<0, 0>>
    /\ Resident(bids) \cup Resident(asks) # {}
    /\ \A id \in Resident(bids) \cup Resident(asks) :
         order_store[id].lifetime = Some(1) /\ order_store[id].age = 0

NoDepth(book) ==
    \A p \in DOMAIN book.price_levels : book.price_levels[p].volume = 0

\* C32: a scheduled id is in at most one bucket at a time; only advance()
\* takes ids out of the wheel, and it returns exactly the bucket the cursor
\* reaches, once for each id in it, and leaves that bucket empty and the
\* other buckets alone, so that no id is returned twice; it never raises.
\* When the book holds only lifetime-1 orders submitted since the last
\* advance() and no trade was made, advance() cancels each of them once and
\* the depth of both sides is back to zero.
C32_WheelReturnsOnce ==
    [][ /\ InOneBucket'
        /\ last'.op # "advance" =>
             \A b \in DOMAIN wheel.expiration_bucket :
                 GrownBy(wheel.expiration_bucket[b],
                         wheel'.expiration_bucket[b])
        /\ last'.op = "advance" =>
             /\ wheel'.now = (wheel.now + 1) % wheel.max_lifetime
             /\ wheel'.expiration_bucket[wheel'.now] = <<>>
             /\ \A b \in DOMAIN wheel.expiration_bucket \ {wheel'.now} :
                  wheel'.expiration_bucket[b] = wheel.expiration_bucket[b]
             /\ last'.raised = ""
             /\ last'.cancelled + last'.ignored = Len(NextBucket)
             /\ last'.cancelled =
                  Cardinality(SeqToSet(NextBucket)
                                \cap (Resident(bids) \cup Resident(asks)))
             /\ \A id \in SeqToSet(NextBucket) :
                  /\ id \notin WheelIds'
                  /\ id \notin Resident(bids') \cup Resident(asks')
             /\ OnlyFreshLifetimeOne =>
                  /\ Resident(bids') \cup Resident(asks') = {}
                  /\ last'.cancelled =
                       Cardinality(Resident(bids) \cup Resident(asks))
                  /\ NoDepth(bids') /\ NoDepth(asks') ]_vars

\* an advance() call cancelled one order and left the book empty and the
\* bucket under the cursor empty, while another bucket still holds an id
C32_Witness ==
    /\ last.op = "advance"
    /\ last.cancelled = 1
    /\ Resident(bids) \cup Resident(asks) = {}
    /\ wheel.expiration_bucket[wheel.now] = <<>>
    /\ \E b \in DOMAIN wheel.expiration_bucket :
         wheel.expiration_bucket[b] # <<>>

\* lifetimes the wheel wraps: zero, max_lifetime and max_lifetime + 1
WrapLifetimes == {Some(0), Some(MaxLifetime), Some(MaxLifetime + 1)}

WrapArgs == LimitArgs({1}, {1}, {None}, WrapLifetimes)

NextWrap ==
    \/ \E batch \in Batches(WrapArgs) :
           id_counter + Len(batch) <= MaxOrders /\ process_orders(batch)
    \/ \E order_ids \in CancelOnce : process_cancellations(order_ids)
    \/ advance

SpecWrap == Init /\ [][NextWrap]_vars

\* the resting orders whose lifetime is outside 1..max_lifetime-1
Wrapping ==
    {id \in Resident(bids) \cup Resident(asks) :
        \/ EffectiveLifetime(order_store[id]) = 0
        \/ EffectiveLifetime(order_store[id]) >= wheel.max_lifetime}

\* ((L - 1) mod max_lifetime) + 1
WrappedLifetime(order) ==
    ((EffectiveLifetime(order) - 1 + wheel.max_lifetime)
        % wheel.max_lifetime) + 1

\* C33: an order whose effective lifetime L is 0 or at least max_lifetime
\* is scheduled in slot (now + L) mod max_lifetime; it stays through the
\* advance() calls before the (((L - 1) mod max_lifetime) + 1)-th after its
\* submission and is removed by that one; no order is in the book with
\* max_lifetime advance() calls behind it.
C33_LifetimeWraps ==
    [][ /\ \A id \in Wrapping' :
             /\ order_store'[id].age < WrappedLifetime(order_store'[id])
             /\ id >= id_counter =>
                  id \in SeqToSet(wheel'.expiration_bucket[
                          (wheel.now + EffectiveLifetime(order_store'[id]))
                              % wheel.max_lifetime])
        /\ \A id \in Resident(bids') \cup Resident(asks') :
             order_store'[id].age < wheel.max_lifetime
        /\ advance =>
             \A id \in Wrapping :
                 (id \in Resident(bids') \cup Resident(asks'))
                 <=> (order_store[id].age + 1
                          < WrappedLifetime(order_store[id])) ]_vars

\* an advance() call expired an order while another one stays that has been
\* through max_lifetime - 1 advance() calls
C33_Witness ==
    /\ last.op = "advance"
    /\ last.cancelled >= 1
    /\ \E id \in Wrapping : order_store[id].age = wheel.max_lifetime - 1

\* every order of a level of book has the level's price and the book's side
PlacedAtOwnPrice(book) ==
    \A p \in DOMAIN book.price_levels :
        \A id \in SeqToSet(book.price_levels[p].orders) :
            /\ order_store[id].price = p
            /\ order_store[id].is_bid = book.is_bid_side

\* C34: while an order rests its price and its side do not change and its
\* remaining volume does not grow; it sits in the level of its price on the
\* book of its side; an id that has left the book (filled, cancelled or
\* expired) is never again in an id index or in a level.
C34_RestingOrderStable ==
    [][ LET before == Resident(bids) \cup Resident(asks)
            after == Resident(bids') \cup Resident(asks')
            on_bids == Resident(bids)
            on_bids1 == Resident(bids')
        IN /\ PlacedAtOwnPrice(bids)' /\ PlacedAtOwnPrice(asks)'
           /\ \A id \in before \cap after :
                /\ order_store'[id].price = order_store[id].price
                /\ order_store'[id].is_bid = order_store[id].is_bid
                /\ order_store'[id].volume <= order_store[id].volume
                /\ id \in on_bids <=> id \in on_bids1
           /\ after \cap ((0..(id_counter - 1)) \ before) = {} ]_vars

\* the last call filled one resting limit order completely and another one
\* in part: the first has left the book, the second rests with less than it
\* was submitted with
C34_Witness ==
    /\ IsProcessOrders
    /\ \E i, j \in 1..Len(last.trades) :
         /\ last.trades[i].g.resting
               \notin Resident(bids) \cup Resident(asks)
         /\ last.trades[j].g.resting \in Resident(bids) \cup Resident(asks)
         /\ order_store[last.trades[j].g.resting].volume
               < order_store[last.trades[j].g.resting].volume0

\* ------------------------------------------------ direct PriceBook calls
\* the state a direct call on one of the two books leaves
book_call_done(op, on_bids, id, o0, book1, o1, trades, raised) ==
    /\ bids' = IF on_bids THEN book1 ELSE bids
    /\ asks' = IF on_bids THEN asks ELSE book1
    /\ order_store' = Restrict(o1, Resident(bids) \cup Resident(asks)
                                     \cup Resident(book1))
    /\ last' = Call(op, <<id>>, o0, o1, trades, None, raised)
    /\ UNCHANGED <<wheel, trade_history>>

fill_done(on_bids, id, o0, r) ==
    book_call_done(IF on_bids THEN "bids.fill" ELSE "asks.fill", on_bids, id,
                   o0, r.book, r.o, r.trades, r.raised)

\* a caller builds an order and calls PriceBook.fill on the book of the
\* order's own side
fill_same_side(a) ==
    /\ id_counter' = id_counter + 1
    /\ fill_done(a.is_bid, id_counter, WithBatch(<<a>>),
                 PriceBook_fill(IF a.is_bid THEN bids ELSE asks, id_counter,
                                WithBatch(<<a>>)))

cancel_done(on_bids, id, o0, r) ==
    book_call_done(IF on_bids THEN "bids.cancel" ELSE "asks.cancel", on_bids,
                   id, o0, r.book, o0, <<>>, r.raised)

\* a caller builds an order, submits it nowhere and calls PriceBook.cancel
\* with it on one of the books
cancel_unsubmitted(a, on_bids) ==
    /\ id_counter' = id_counter + 1
    /\ cancel_done(on_bids, id_counter, WithBatch(<<a>>),
                   PriceBook_cancel(IF on_bids THEN bids ELSE asks,
                                    id_counter, WithBatch(<<a>>)))

\* a caller calls PriceBook.cancel on one book with an order that rests on
\* the other
cancel_other_side(id) ==
    /\ id \in bids.order_map \cup asks.order_map
    /\ cancel_done(id \in asks.order_map, id, order_store,
                   PriceBook_cancel(IF id \in asks.order_map THEN bids
                                    ELSE asks, id, order_store))
    /\ UNCHANGED id_counter

\* SpecDirect: the calls of `Spec` without expiry, and direct calls of
\* PriceBook.fill and PriceBook.cancel with orders the book does not expect
NextDirect ==
    \/ \E batch \in Batches(MainArgs) :
           id_counter + Len(batch) <= MaxOrders /\ process_orders(batch)
    \/ \E order_ids \in CancelOnce : process_cancellations(order_ids)
    \/ \E a \in MainArgs : id_counter < MaxOrders /\ fill_same_side(a)
    \/ \E a \in MainArgs, on_bids \in BOOLEAN :
           id_counter < MaxOrders /\ cancel_unsubmitted(a, on_bids)
    \/ \E id \in 0..(MaxOrders - 1) : cancel_other_side(id)

SpecDirect == Init /\ [][NextDirect]_vars

\* C35: PriceBook.fill called with an order of the book's own side raises
\* ValueError before it changes anything: levels, FIFOs, running volumes,
\* id index and heap of both books are as before, every resting order and
\* the order itself keep their volume, and no trade is made.
C35_SameSideFillRejected ==
    [][ last'.op \in {"bids.fill", "asks.fill"} =>
        \A a \in MainArgs :
          fill_same_side(a) =>
            /\ last'.raised = "ValueError"
            /\ last'.trades = <<>>
            /\ bids' = bids /\ asks' = asks
            /\ order_store' = order_store
            /\ last'.post[id_counter].volume = a.volume ]_vars

\* the book a direct call was made on
CalledBook ==
    IF last.op \in {"bids.fill", "bids.cancel"} THEN bids ELSE asks

\* a same-side fill was refused on a book that has a resting order and an
\* empty level still standing
C35_Witness ==
    /\ last.op \in {"bids.fill", "asks.fill"}
    /\ last.raised = "ValueError"
    /\ CalledBook.order_map # {}
    /\ \E p \in DOMAIN CalledBook.price_levels :
         CalledBook.price_levels[p].orders = <<>>

\* what a PriceBook.cancel call that fails leaves
CancelRejected ==
    /\ last'.raised = "ValueError"
    /\ bids' = bids /\ asks' = asks
    /\ order_store' = order_store

\* C36: PriceBook.cancel called with an order that does not rest on that
\* side, because its price has no level there or because the level does
\* not hold it, raises ValueError and leaves the levels, their FIFOs and
\* running volumes, the id index and the heap of the book as they were.
C36_AbsentCancelRejected ==
    [][ last'.op \in {"bids.cancel", "asks.cancel"} =>
          /\ \A a \in MainArgs, on_bids \in BOOLEAN :
               cancel_unsubmitted(a, on_bids) => CancelRejected
          /\ \A id \in 0..(MaxOrders - 1) :
               cancel_other_side(id) => CancelRejected ]_vars

\* a cancel was refused by a level that exists at the order's price and
\* holds another order
C36_Witness ==
    /\ last.op \in {"bids.cancel", "asks.cancel"}
    /\ last.raised = "ValueError"
    /\ last.pre[last.args[1]].price \in DOMAIN CalledBook.price_levels
    /\ CalledBook.price_levels[last.pre[last.args[1]].price].orders # <<>>

Queues(book) ==
    [p \in {q \in DOMAIN book.price_levels :
               book.price_levels[q].orders # <<>>}
       |-> book.price_levels[p].orders]

\* C38: a best-price query (get_best_bid, get_best_ask, and with them
\* spread and mid_price, which call both) changes nothing observable: the
\* resting orders, their volumes and their FIFO order are as before, and
\* get_bid_depth() and get_ask_depth() answer after the query what they
\* answered before it.
C38_QueriesChangeNothing ==
    [][ (get_best_bid \/ get_best_ask) =>
          /\ order_store' = order_store
          /\ bids'.order_map = bids.order_map
          /\ asks'.order_map = asks.order_map
          /\ Queues(bids') = Queues(bids)
          /\ Queues(asks') = Queues(asks)
          /\ PriceBook_get_depth(bids') = PriceBook_get_depth(bids)
          /\ PriceBook_get_depth(asks') = PriceBook_get_depth(asks) ]_vars

\* SpecSelf: every order has a trader, and a trader may be on both sides
SelfArgs == LimitArgs(Prices, Volumes, {Some(1), Some(2)}, {None})
            \cup MarketArgs(Volumes, {Some(1)})

NextSelf ==
    \/ \E batch \in Batches(SelfArgs) :
           id_counter + Len(batch) <= MaxOrders /\ process_orders(batch)
    \/ \E order_ids \in CancelOnce : process_cancellations(order_ids)

SpecSelf == Init /\ [][NextSelf]_vars

\* the orders o, each given a trader_id that no other order has
AllStrangers(o) ==
    [id \in DOMAIN o |-> [o[id] EXCEPT !.trader_id = Some(0 - 1 - id)]]

\* what the batch of the step would do if every order in play belonged to
\* a different trader
AmongStrangers ==
    process_orders_loop(
        [bids |-> bids, asks |-> asks, wheel |-> wheel,
         o |-> AllStrangers(last'.pre), trades |-> <<>>, raised |-> ""],
        last'.args)

\* the trades of the last call between two orders of one trader
SelfTrades ==
    {i \in TradeIdx :
        /\ last.post[last.trades[i].bid_order].trader_id # None
        /\ last.post[last.trades[i].bid_order].trader_id
             = last.post[last.trades[i].ask_order].trader_id}

NotifiedOnce(t, id) ==
    Cardinality({k \in NotifKeys : k[1] = t /\ Notif(k).order_id = id}) = 1

\* both orders of every trade a trader made with itself have their one
\* notification in the trader's list, which has one entry for each order
\* of the trader that traded
SelfTradesNotified ==
    \A i \in SelfTrades :
        LET t == last.post[last.trades[i].bid_order].trader_id IN
        /\ last.trades[i].bid_order # last.trades[i].ask_order
        /\ NotifiedOnce(t, last.trades[i].bid_order)
        /\ NotifiedOnce(t, last.trades[i].ask_order)
        /\ Len(last.result[t])
             = Cardinality({id \in DOMAIN last.post :
                              /\ last.post[id].trader_id = t
                              /\ TradesOf(id) # {}})

\* the step made the trades and left the books, the wheel and the order
\* volumes of st
SameOutcome(st) ==
    /\ st.trades = last'.trades
    /\ st.bids = bids'
    /\ st.asks = asks'
    /\ st.wheel = wheel'
    /\ \A id \in DOMAIN last'.post : st.o[id].volume = last'.post[id].volume

\* C39: matching does not look at trader_id: a process_orders call makes
\* the trades (orders, prices, volumes, sequence) and leaves the books and
\* order volumes that it would if every order belonged to a different
\* trader, so an incoming order trades with a resting order of its own
\* trader like with any other.  For such a trade the trader's list in the
\* result holds one notification for each of the two orders, and as many
\* notifications as the trader has orders that traded in the batch.
C39_SelfMatching ==
    [][ (last'.op = "process_orders" /\ id_counter' # id_counter) =>
          /\ SameOutcome(AmongStrangers)
          /\ SelfTradesNotified' ]_vars

\* a trader's incoming order traded with a resting order of the same
\* trader, and the trader's list in the result has exactly two entries
C39_Witness ==
    /\ IsProcessOrders
    /\ \E i \in SelfTrades :
         Len(last.result[last.post[last.trades[i].bid_order].trader_id]) = 2

\* trade i of the last call took all that was left of the resting order
\* (the head is popped), or all that was left of the incoming one
PopsHead(i) == last.trades[i].volume = last.trades[i].g.resting_volume

ExhaustsIncoming(i) == last.trades[i].volume = last.trades[i].g.incoming_volume

\* trade i popped the only order of its level
EmptiesLevel(i) == PopsHead(i) /\ Len(last.trades[i].g.queue) = 1

\* trade i is the last one of its incoming order
LastOfIncoming(i) ==
    \/ i = Len(last.trades)
    \/ last.trades[i + 1].g.incoming # last.trades[i].g.incoming

\* a level at price p crosses the incoming order of trade i
CrossesIncoming(i, p) ==
    IF last.trades[i].g.incoming_is_bid
    THEN p <= last.trades[i].g.incoming_price
    ELSE p >= last.trades[i].g.incoming_price

\* C40: the loops of a process_orders call make progress, which bounds
\* them.  Every iteration of PriceLevel.fill (one trade) trades a positive
\* volume and pops the head order or exhausts the incoming order, and a
\* further iteration for the same incoming order follows only a pop.  An
\* iteration of PriceBook.fill goes on to another price only after the
\* level was emptied, and the fill of an incoming order ends with the
\* order exhausted or with the last level emptied and no other occupied
\* price crossing.  So a call makes at most one trade per order in play,
\* and it completes.
C40_FillLoopsProgress ==
    IsProcessOrders =>
      /\ last.raised = ""
      /\ Len(last.trades) <= Cardinality(DOMAIN last.pre)
      /\ \A i \in TradeIdx :
           /\ last.trades[i].volume >= 1
           /\ PopsHead(i) \/ ExhaustsIncoming(i)
           /\ PopsHead(i) =>
                last.trades[i].g.resting
                  \notin Resident(bids) \cup Resident(asks)
           /\ ~LastOfIncoming(i) =>
                /\ PopsHead(i) /\ ~ExhaustsIncoming(i)
                /\ last.trades[i + 1].g.incoming_volume
                     = last.trades[i].g.incoming_volume - last.trades[i].volume
                /\ IF last.trades[i + 1].price = last.trades[i].price
                   THEN last.trades[i + 1].g.queue
                          = Tail(last.trades[i].g.queue)
                   ELSE EmptiesLevel(i)
           /\ LastOfIncoming(i) =>
                \/ ExhaustsIncoming(i)
                \/ /\ EmptiesLevel(i)
                   /\ \A p \in last.trades[i].g.occupied
                                \ {last.trades[i].price} :
                        ~CrossesIncoming(i, p)

\* an incoming order emptied the best level and stopped with volume left
\* because the other occupied price does not cross
C40_Witness ==
    /\ IsProcessOrders
    /\ \E i \in TradeIdx :
         /\ LastOfIncoming(i)
         /\ ~ExhaustsIncoming(i)
         /\ EmptiesLevel(i)
         /\ last.trades[i].g.occupied \ {last.trades[i].price} # {}

====
